---- MODULE Spec2Model ----
(***************************************************************************)
(* Camera fleet manager of the Amiga navigation backend                    *)
(* (src/backend/OakManager.py, class OakManager).                          *)
(*                                                                         *)
(* The parent process builds the camera list in OakManager.__init__, then  *)
(* forks a worker process that runs _start_cameras: a loop that takes      *)
(* commands from a multiprocessing queue and hands each to _handle_msg,    *)
(* which writes one compressed point cloud per camera.                     *)
(***************************************************************************)
EXTENDS Integers, Sequences, FiniteSets, TLC

(***************************************************************************)
(* Bounds of the model.                                                    *)
(***************************************************************************)
\* longest list dai.Device.getAllAvailableDevices() returns
MaxDevices == 2
\* number of queue_msg calls in one run
MaxCmds == 2

(***************************************************************************)
(* Device names.  A name is the string device_info.name, kept as the       *)
(* sequence of its characters so that name[-2:] and int() are computed.    *)
(***************************************************************************)
Digits == {"0", "1", "2", "3", "4", "5", "6", "7", "8", "9"}

DigitValue(c) ==
    CASE c = "0" -> 0 [] c = "1" -> 1 [] c = "2" -> 2 [] c = "3" -> 3
      [] c = "4" -> 4 [] c = "5" -> 5 [] c = "6" -> 6 [] c = "7" -> 7
      [] c = "8" -> 8 [] c = "9" -> 9

\* "10.95.76.10": the address OakManager.__init__ leaves out
OAK0 == <<"1", "0", ".", "9", "5", ".", "7", "6", ".", "1", "0">>
OAK1 == <<"1", "0", ".", "9", "5", ".", "7", "6", ".", "1", "1">>
OAK2 == <<"1", "0", ".", "9", "5", ".", "7", "6", ".", "1", "2">>
\* an address whose last octet has one digit: "10.95.76.5"
OAK5 == <<"1", "0", ".", "9", "5", ".", "7", "6", ".", "5">>

DeviceNames == {OAK0, OAK1, OAK2, OAK5}

\* stream_port_base, default "50"
stream_port_base == <<"5", "0">>

\* Python's s[-2:]
LastTwo(s) == IF Len(s) <= 2 THEN s ELSE SubSeq(s, Len(s) - 1, Len(s))

\* int(s) succeeds when s, a string of digits and dots here, holds digits only
IsDecimal(s) == Len(s) > 0 /\ \A i \in 1..Len(s) : s[i] \in Digits

RECURSIVE IntOf(_)
IntOf(s) ==
    IF Len(s) = 0 THEN 0
    ELSE 10 * IntOf(SubSeq(s, 1, Len(s) - 1)) + DigitValue(s[Len(s)])

\* the argument of int() in  port = int(stream_port_base + device_info.name[-2:])
PortString(name) == stream_port_base \o LastTwo(name)

\* all lists of pairwise distinct device names of length <= MaxDevices
DeviceLists ==
    { l \in UNION { [1..n -> DeviceNames] : n \in 0..MaxDevices } :
        \A i, j \in 1..Len(l) : i # j => l[i] # l[j] }

(***************************************************************************)
(* Commands.  A dict is a record whose fields are the keys present; a      *)
(* Python object that is no mapping (here a str) is the record with the    *)
(* single field pystr.                                                     *)
(***************************************************************************)
IsMapping(msg) == "pystr" \notin DOMAIN msg

\* msg.get("action", "No action")
ActionOfDefaultSave(msg) ==
    IF "action" \in DOMAIN msg THEN msg.action ELSE "save_point_cloud"

ActionOf(msg) ==
    IF "action" \in DOMAIN msg THEN msg.action ELSE "No action"

\* f"{msg.get(key)}" for the integer fields: no default given
FormatIntNoDefault(msg, key) ==
    IF key \in DOMAIN msg THEN ToString(msg[key]) ELSE "None"

\* f"{msg.get(key, 'X')}" for the integer fields
FormatInt(msg, key) == IF key \in DOMAIN msg THEN ToString(msg[key]) ELSE "X"

\* f"{msg.get('line_name', 'X')}"
FormatLine(msg) == IF "line_name" \in DOMAIN msg THEN msg.line_name ELSE "X"

\* path below POINTCLOUD_DATA_DIR, one element per directory level
CapturePathNoCapture(msg) ==
    << FormatLine(msg),
       "row_" \o FormatInt(msg, "row_number"),
       "capture_" \o FormatInt(msg, "row_number") >>

CapturePath(msg) ==
    << FormatLine(msg),
       "row_" \o FormatInt(msg, "row_number"),
       "capture_" \o FormatInt(msg, "capture_number") >>

\* os.makedirs creates the directory and every missing ancestor
Ancestors(path) == { SubSeq(path, 1, n) : n \in 1..Len(path) }

\* f"{path}/camera-{i}.drc", as the pair (directory, index)
CameraFileShifted(path, i) == <<path, i + 1>>

CameraFile(path, i) == <<path, i>>

SaveCmd(line, row, cap) ==
    [action |-> "save_point_cloud", line_name |-> line,
     row_number |-> row, capture_number |-> cap]

\* the commands queue_msg is called with
Msgs ==
    { SaveCmd("rowA", 2, 0),
      SaveCmd("rowA", 2, 1),
      [action |-> "save_point_cloud", line_name |-> "rowA", row_number |-> 2],
      [action |-> "align_point_clouds"],
      [line_name |-> "rowA", row_number |-> 2, capture_number |-> 0],
      [pystr |-> "save_point_cloud"] }

(***************************************************************************)
(* Files that an earlier run of the program left under                     *)
(* POINTCLOUD_DATA_DIR: nothing, or the capture of a three-camera fleet.   *)
(***************************************************************************)
OldCapture == CapturePath(SaveCmd("rowA", 2, 0))

InitialFiles == { {}, { CameraFile(OldCapture, 2) } }

VARIABLES
    devices,    \* device_infos: the enumerated device names
    dstat,      \* per enumerated device: pending, skipped, constructing, ok, failed
    di,         \* position of the for loop of __init__ in device_infos
    cameras,    \* self._cameras: records [ip, stream_port]
    ppc,        \* parent process: init, raised, started, gone
    queue,      \* self._queue: records [id, msg], id = number of the queue_msg call
    sent,       \* every message passed to queue_msg, in call order
    wpc,        \* worker process: none, loop, get, handle, mkdir, update, write, crashed, exited
    exc,        \* the exception that ended the worker, or "none"
    cur,        \* the queue entry _handle_msg is working on
    ci,         \* index i of  for i, camera in enumerate(self._cameras)
    dirs,       \* directories below POINTCLOUD_DATA_DIR
    files,      \* files below POINTCLOUD_DATA_DIR, as CameraFile pairs
    log         \* what the worker did, in order: records [id, op, cam, ip, path]

VARIABLES
    spc,        \* OakManager.shutdown() in the parent: idle, cameras, join, returned
    si          \* number of cameras whose shutdown() the parent has completed

VARIABLES
    server,           \* Camera._http_streaming_server: "None" or "set"
    tpc,              \* streamingServerThread: start, created, serving, closing, dead
    shutdown_request, \* the server's shutdown request flag
    is_shut_down,     \* the server's event "the serve_forever loop is over"
    device,           \* Camera._device: open or closed
    cpc,              \* the caller inside Camera.shutdown(): idle, wait_server,
                      \* check_thread, join, close
    calls,            \* completed calls of Camera.shutdown()
    after_first,      \* the camera as the first shutdown() left it
    upc,              \* the caller inside Camera.update(): idle, get, points, colors
    pkt,              \* the packet update() took: [pcl, bgr] sizes
    updates,          \* calls of Camera.update() so far
    outq,             \* packets waiting in Camera.output_queue
    npoints,          \* len(point_cloud.points)
    ncolors           \* len(point_cloud.colors)

VARIABLES
    alignment,        \* camera.alignment of each fused camera
    transform_matrix, \* camera.transform_matrix of each fused camera
    saved_alignment,  \* the alignment file of each fused camera
    fpc,              \* PointCloudFusion: idle, reset, align
    fi,               \* index of the camera the running method is at
    fstage,           \* stage of the registration of camera fi
    fops,             \* calls of align_point_clouds and reset_alignment so far
    fcall,            \* the method called last: none, reset, align
    flog              \* what that call has done so far: [op, cam, seed, result]

VARIABLES
    calib,      \* calibration files per enumerated device: [ext, al], a file
                \* is <<>> when it is missing and <<matrix>> otherwise
    kpc,        \* Camera.__init__ in progress: none, device, extrinsics,
                \* alignment, transform, thread
    kobj,       \* attributes of the Camera under construction, <<>> when unset
    kerr,       \* per enumerated device: the exception its constructor raised
    kcams       \* attributes of the cameras in self._cameras, in order

VARIABLES
    color_in,   \* a color channel of the cloud passed to compress_pcd
    color_byte, \* the channel as compress_pcd hands it to the encoder
    color_out,  \* the channel of the cloud decompress_drc returns
    payload,    \* what DracoPy.decode returned to decompress_drc
    drc_result  \* what decompress_drc returned or raised

VARIABLES
    videoq,     \* packets waiting in Camera._video_queue
    hpc,        \* the handler thread of the streaming client: none, streaming
    hreq,       \* the last request a handler answered: [method, path]
    hresp       \* the status line and headers sent for it

VARIABLES
    paddr,      \* device_infos of a fleet whose ports are looked at
    pidx,       \* position of the loop of __init__ in paddr
    ports,      \* the Camera(...) calls made so far: [name, port]
    perr        \* the exception that left __init__, or "none"

VARIABLES
    fleets,     \* the OakManager objects built so far: [cls, queue], queue
                \* being the identity of the Queue object the fleet holds
    heapq,      \* contents of each Queue object, by identity
    fgot,       \* [by, for]: the worker of fleet by took a command put for
                \* fleet for
    fsent       \* number of commands put so far

VARIABLES
    mpc,        \* the server process: imported, config, manager, oak, serving,
                \* stopped, exited, failed
    mcfg,       \* the ports of the configs in the file args.config names
    marity,     \* number of positional arguments setup_services was called with
    g_oak,      \* the module global oak_manager of main.py
    services,   \* the dict setup_services builds and returns
    mexc,       \* the exception that ended setup_services, or "none"
    msig,       \* SIGTERM was delivered to handle_sigterm
    mshut       \* number of calls of OakManager.shutdown() by the server

serverVars == <<mpc, mcfg, marity, g_oak, services, mexc, msig, mshut>>

VARIABLES
    dqueue,     \* the inter-process queue of startCameras(queue): pickled messages
    dobj,       \* number of string objects the worker has unpickled so far
    dout        \* what the loop of startCameras did with each message it took

dispatchVars == <<dqueue, dobj, dout>>

VARIABLES
    following_track,  \* sv.following_track
    rpc,              \* where each follow_line request stands
    rret,             \* what each follow_line request returned, or "none"
    trk,              \* the requests sent to the track follower, in order
    ftasks            \* the requests that scheduled handle_image_capture

followVars == <<following_track, rpc, rret, trk, ftasks>>

VARIABLES
    row_indices,          \* the intervals follow_line gave the capture task
    capture_pc,                  \* handle_image_capture: loop, pause, sleep, resume, exited
    current_row_number,
    last_image_capture,
    capture_number,
    track_follow_id,      \* the id the task took at its start
    sv_track_follow_id,   \* sv.track_follow_id
    hlast,                \* goal index and status of the last state message taken
    hmono,                \* the goal index has not decreased so far
    hn,                   \* number of state messages taken
    hlog                  \* /pause completed, capture enqueued, /resume sent, in order

captureVars == <<row_indices, capture_pc, current_row_number, last_image_capture,
                 capture_number, track_follow_id, sv_track_follow_id, hlast,
                 hmono, hn, hlog>>
portVars == <<paddr, pidx, ports, perr>>
fleetsVars == <<fleets, heapq, fgot, fsent>>
laterVars == <<portVars, fleetsVars, serverVars, dispatchVars, followVars,
              captureVars>>
shutdownVars == <<spc, si>>
calibVars == <<calib, kpc, kobj, kerr, kcams>>
codecVars == <<color_in, color_byte, color_out, payload, drc_result>>
httpVars == <<videoq, hpc, hreq, hresp>>
moreVars == <<calibVars, codecVars, httpVars, laterVars>>
cameraVars == <<server, tpc, shutdown_request, is_shut_down, device, cpc, calls,
                after_first, upc, pkt, updates, outq, npoints, ncolors>>
fusionVars == <<alignment, transform_matrix, saved_alignment, fpc, fi, fstage,
                fops, fcall, flog>>
fleetVars == <<devices, dstat, di, cameras, ppc, queue, sent, wpc, exc, cur, ci,
               dirs, files, log>>

vars == <<fleetVars, shutdownVars, cameraVars, fusionVars, moreVars>>

startupVars == <<devices, dstat, di, cameras>>
workerVars == <<wpc, exc, cur, ci, dirs, files, log>>

NoEntry == [id |-> 0, msg |-> [action |-> "none"]]

Event(id, op, cam, ip, path) ==
    [id |-> id, op |-> op, cam |-> cam, ip |-> ip, path |-> path]

(***************************************************************************)
(* Rigid transforms.  The 4x4 homogeneous matrices of the code are taken   *)
(* along one axis: <<<<r, t>>, <<0, 1>>>> maps x to r*x + t.                *)
(***************************************************************************)
MatMul(a, b) ==
    [i \in 1..2 |-> [j \in 1..2 |-> a[i][1] * b[1][j] + a[i][2] * b[2][j]]]

Eye == <<<<1, 0>>, <<0, 1>>>>

Shift(t) == <<<<1, t>>, <<0, 1>>>>

\* flip_z = diag(1, -1, -1, 1), on the flipped axis
flip_z == <<<<-1, 0>>, <<0, 1>>>>

\* transform_matrix = cam_to_world @ alignment @ flip_z, then
\* transform_matrix[:3, 3] *= 1000.0
TransformOf(c2w, al) ==
    LET m == MatMul(MatMul(c2w, al), flip_z)
    IN  <<<<m[1][1], m[1][2] * 1000>>, m[2]>>

NumFusionCameras == 3
FusionCams == 0..(NumFusionCameras - 1)

\* the extrinsics file of camera i
cam_to_world(i) == Shift(i + 1)

\* what a registration can return, and what an alignment file can hold
MaxShift == 1
Alignments == { Shift(t) : t \in 0..MaxShift }

\* np.load of the alignment file, np.eye(4) when it cannot be read; a file
\* is <<>> when it is missing and <<matrix>> otherwise
LoadAlignment(file) == IF file = <<>> THEN Eye ELSE file[1]

\* _load_calibration of every fused camera, with the alignment files given
FusionLoaded(saved) ==
    /\ saved_alignment = saved
    /\ alignment = [i \in FusionCams |-> LoadAlignment(saved[i])]
    /\ transform_matrix =
           [i \in FusionCams |-> TransformOf(cam_to_world(i), LoadAlignment(saved[i]))]
    /\ fpc = "idle"
    /\ fi = 0
    /\ fstage = 0
    /\ fops = 0
    /\ fcall = "none"
    /\ flog = <<>>

NoAlignmentFiles == [i \in FusionCams |-> <<>>]

\* the parent has not called OakManager.shutdown()
ShutdownIdle ==
    /\ spc = "idle"
    /\ si = 0

NoPacket == [pcl |-> 0, bgr |-> 0]

NoSnapshot == [server |-> "None", alive |-> TRUE, device |-> "open"]

\* Camera.__init__ has returned: the device is open, the point cloud is
\* empty, the responder thread is started and has not yet run a statement
CameraConstructed ==
    /\ server = "None"
    /\ tpc = "start"
    /\ shutdown_request = FALSE
    /\ is_shut_down = FALSE
    /\ device = "open"
    /\ cpc = "idle"
    /\ calls = 0
    /\ after_first = NoSnapshot
    /\ upc = "idle"
    /\ pkt = NoPacket
    /\ updates = 0
    /\ outq = 0
    /\ npoints = 0
    /\ ncolors = 0

\* no Camera is under construction and none was built in detail
NoObject == [cam_to_world |-> <<>>, alignment |-> <<>>, transform_matrix |-> <<>>]

NoCalib ==
    /\ calib = <<>>
    /\ kpc = "none"
    /\ kobj = NoObject
    /\ kerr = <<>>
    /\ kcams = <<>>

\* a section of a decoded payload: the attribute is absent, is None, or is
\* an array of n rows
Section(has, n) == [has |-> has, n |-> n]

\* DracoPy.decode has not run
NoPayload ==
    [points |-> Section("undecoded", 0), colors |-> Section("undecoded", 0)]

NoResult == [kind |-> "none", npoints |-> 0, ncolors |-> 0]

\* nothing was compressed or decompressed
NoCodec ==
    /\ color_in = -1
    /\ color_byte = -1
    /\ color_out = -1
    /\ payload = NoPayload
    /\ drc_result = NoResult

NoRequest == [method |-> "", path |-> ""]

NoResponse == [status |-> 0, headers |-> {}, body |-> "none", frames |-> 0]

\* no client has connected and the device has sent no video packet
NoHttp ==
    /\ videoq = 0
    /\ hpc = "none"
    /\ hreq = NoRequest
    /\ hresp = NoResponse

\* no fleet is looked at for its ports
NoPorts ==
    /\ paddr = <<>>
    /\ pidx = 1
    /\ ports = <<>>
    /\ perr = "none"

MaxFleets == 2

\* the Queue() of the default argument, made once when the def is executed
DefaultQueue == 0

QueueIds == 0..MaxFleets

\* no OakManager was built
NoFleets ==
    /\ fleets = <<>>
    /\ heapq = [q \in QueueIds |-> <<>>]
    /\ fgot = {}
    /\ fsent = 0

NoServices == [event_manager |-> "None", oak_manager |-> "None", sv |-> "None"]

\* main.py was imported with an empty config list: oak_manager = None
NoServer ==
    /\ mpc = "imported"
    /\ mcfg = <<>>
    /\ marity = 0
    /\ g_oak = "None"
    /\ services = NoServices
    /\ mexc = "none"
    /\ msig = FALSE
    /\ mshut = 0

NoDispatch ==
    /\ dqueue = <<>>
    /\ dobj = 0
    /\ dout = <<>>

MaxRequests == 3

Requests == 1..MaxRequests

NoFollow ==
    /\ following_track = FALSE
    /\ rpc = [r \in Requests |-> "new"]
    /\ rret = [r \in Requests |-> "none"]
    /\ trk = <<>>
    /\ ftasks = {}

\* handle_image_capture after its first lines, for a follow without rows
TaskStarted(rows) ==
    /\ row_indices = rows
    /\ capture_pc = "loop"
    /\ current_row_number = -1
    /\ last_image_capture = 0
    /\ capture_number = 0
    /\ track_follow_id = 1
    /\ sv_track_follow_id = 1
    /\ hlast = [goal |-> -1, status |-> "none"]
    /\ hmono = TRUE
    /\ hn = 0
    /\ hlog = <<>>

NoCapture == TaskStarted(<<>>)

NoLater ==
    /\ NoPorts
    /\ NoFleets
    /\ NoServer
    /\ NoDispatch
    /\ NoFollow
    /\ NoCapture
    /\ NoCapture
    /\ NoFollow

Init ==
    /\ devices \in DeviceLists
    /\ dstat = [i \in 1..Len(devices) |-> "pending"]
    /\ di = 1
    /\ cameras = <<>>
    /\ ppc = "init"
    /\ queue = <<>>
    /\ sent = <<>>
    /\ wpc = "none"
    /\ exc = "none"
    /\ cur = NoEntry
    /\ ci = 0
    /\ files \in InitialFiles
    /\ dirs = UNION { Ancestors(f[1]) : f \in files }
    /\ log = <<>>
    /\ ShutdownIdle
    /\ CameraConstructed
    /\ FusionLoaded(NoAlignmentFiles)
    /\ NoCalib
    /\ NoCodec
    /\ NoHttp
    /\ NoLater

(***************************************************************************)
(* OakManager.__init__: the loop over device_infos, then Process.start().  *)
(***************************************************************************)
\* if device_info.name == "10.95.76.10": continue
SkipDenied ==
    /\ ppc = "init"
    /\ di <= Len(devices)
    /\ dstat[di] = "pending"
    /\ devices[di] = OAK0
    /\ dstat' = [dstat EXCEPT ![di] = "skipped"]
    /\ di' = di + 1
    /\ UNCHANGED <<devices, cameras, ppc, queue, sent>>
    /\ UNCHANGED workerVars
    /\ UNCHANGED <<shutdownVars, cameraVars, fusionVars, moreVars>>

\* a loop that does not wait for the constructor before it moves on
BeginConstructAsync ==
    /\ ppc = "init"
    /\ di <= Len(devices)
    /\ dstat[di] = "pending"
    /\ devices[di] # OAK0
    /\ IF IsDecimal(PortString(devices[di]))
       THEN /\ dstat' = [dstat EXCEPT ![di] = "constructing"]
            /\ di' = di + 1
            /\ ppc' = ppc
       ELSE /\ ppc' = "raised"
            /\ UNCHANGED <<dstat, di>>
    /\ UNCHANGED <<devices, cameras, queue, sent>>
    /\ UNCHANGED workerVars
    /\ UNCHANGED <<shutdownVars, cameraVars, fusionVars, moreVars>>

\* port = int(stream_port_base + device_info.name[-2:]), outside the try,
\* then the call Camera(device_info, port, ...) begins
BeginConstruct ==
    /\ ppc = "init"
    /\ di <= Len(devices)
    /\ dstat[di] = "pending"
    /\ devices[di] # OAK0
    /\ IF IsDecimal(PortString(devices[di]))
       THEN /\ dstat' = [dstat EXCEPT ![di] = "constructing"]
            /\ ppc' = ppc
       ELSE \* ValueError leaves __init__
            /\ ppc' = "raised"
            /\ dstat' = dstat
    /\ UNCHANGED <<devices, di, cameras, queue, sent>>
    /\ UNCHANGED workerVars
    /\ UNCHANGED <<shutdownVars, cameraVars, fusionVars, moreVars>>

\* the constructor call in progress returns and the camera is appended, or it
\* raises and the except clause prints; then sleep(2) and the next iteration
EndConstruct ==
    /\ ppc = "init"
    /\ \E k \in 1..Len(devices) :
        /\ dstat[k] = "constructing"
        /\ \E ok \in BOOLEAN :
            IF ok
            THEN /\ cameras' = Append(cameras,
                        [ip |-> devices[k],
                         stream_port |-> IntOf(PortString(devices[k]))])
                 /\ dstat' = [dstat EXCEPT ![k] = "ok"]
            ELSE /\ cameras' = cameras
                 /\ dstat' = [dstat EXCEPT ![k] = "failed"]
        /\ di' = IF k = di THEN di + 1 ELSE di
    /\ UNCHANGED <<devices, ppc, queue, sent>>
    /\ UNCHANGED workerVars
    /\ UNCHANGED <<shutdownVars, cameraVars, fusionVars, moreVars>>

\* self.camera_process = Process(target=self._start_cameras, daemon=True); start()
\* the child registers its SIGTERM handler and enters the while loop
SpawnWorker ==
    /\ ppc = "init"
    /\ di > Len(devices)
    /\ ppc' = "started"
    /\ wpc' = "loop"
    /\ UNCHANGED startupVars
    /\ UNCHANGED <<queue, sent, exc, cur, ci, dirs, files, log>>
    /\ UNCHANGED <<shutdownVars, cameraVars, fusionVars, moreVars>>

(***************************************************************************)
(* The parent side of the queue.                                           *)
(***************************************************************************)
\* OakManager.queue_msg: self._queue.put(msg)
queue_msg(msg) ==
    /\ ppc = "started"
    /\ Len(sent) < MaxCmds
    /\ queue' = Append(queue, [id |-> Len(sent) + 1, msg |-> msg])
    /\ sent' = Append(sent, msg)
    /\ UNCHANGED startupVars
    /\ UNCHANGED ppc
    /\ UNCHANGED workerVars
    /\ UNCHANGED <<shutdownVars, cameraVars, fusionVars, moreVars>>

\* the parent process ends without the worker having been stopped
ParentExit ==
    /\ ppc = "started"
    /\ ppc' = "gone"
    /\ UNCHANGED startupVars
    /\ UNCHANGED <<queue, sent>>
    /\ UNCHANGED workerVars
    /\ UNCHANGED <<shutdownVars, cameraVars, fusionVars, moreVars>>

(***************************************************************************)
(* OakManager._start_cameras, in the worker process.                       *)
(***************************************************************************)
WorkerRunning == wpc \in {"loop", "get", "handle", "mkdir", "update", "write"}

\* handle_sigterm: kill_now = True; sys.exit(0)
WorkerSigterm ==
    /\ WorkerRunning
    /\ wpc' = "exited"
    /\ UNCHANGED startupVars
    /\ UNCHANGED <<ppc, queue, sent, exc, cur, ci, dirs, files, log>>
    /\ UNCHANGED <<shutdownVars, cameraVars, fusionVars, moreVars>>

\* while kill_now is False: if os.getppid() == 1: sys.exit(1)
LoopTop ==
    /\ wpc = "loop"
    /\ wpc' = IF ppc = "gone" THEN "exited" ELSE "get"
    /\ UNCHANGED startupVars
    /\ UNCHANGED <<ppc, queue, sent, exc, cur, ci, dirs, files, log>>
    /\ UNCHANGED <<shutdownVars, cameraVars, fusionVars, moreVars>>

\* self._queue.get(timeout=0.1) raises Empty: pass
QueueEmpty ==
    /\ wpc = "get"
    /\ queue = <<>>
    /\ wpc' = "loop"
    /\ UNCHANGED startupVars
    /\ UNCHANGED <<ppc, queue, sent, exc, cur, ci, dirs, files, log>>
    /\ UNCHANGED <<shutdownVars, cameraVars, fusionVars, moreVars>>

\* a consumer that takes the newest entry instead of the oldest
QueueGetLifo ==
    /\ wpc = "get"
    /\ queue # <<>>
    /\ cur' = queue[Len(queue)]
    /\ queue' = SubSeq(queue, 1, Len(queue) - 1)
    /\ log' = Append(log, Event(queue[Len(queue)].id, "get", -1, <<>>, <<>>))
    /\ wpc' = "handle"
    /\ UNCHANGED startupVars
    /\ UNCHANGED <<ppc, sent, exc, ci, dirs, files>>
    /\ UNCHANGED <<shutdownVars, cameraVars, fusionVars, moreVars>>

\* self._queue.get(timeout=0.1) returns the oldest entry, which is passed to
\* self._handle_msg
QueueGet ==
    /\ wpc = "get"
    /\ queue # <<>>
    /\ cur' = Head(queue)
    /\ queue' = Tail(queue)
    /\ log' = Append(log, Event(Head(queue).id, "get", -1, <<>>, <<>>))
    /\ wpc' = "handle"
    /\ UNCHANGED startupVars
    /\ UNCHANGED <<ppc, sent, exc, ci, dirs, files>>
    /\ UNCHANGED <<shutdownVars, cameraVars, fusionVars, moreVars>>

(***************************************************************************)
(* OakManager._handle_msg, run by the worker on the entry it took.         *)
(***************************************************************************)
\* the camera the for loop binds at index i (TLA+ sequences start at 1)
CameraAtReversed(i) == cameras[Len(cameras) - i]

CameraAt(i) == cameras[i + 1]

\* _handle_msg returns: the entry is finished and the loop goes on
Returned(id) == Event(id, "done", -1, <<>>, <<>>)

\* action = msg.get("action", "No action"); if action != "save_point_cloud": return
HandleMsg ==
    /\ wpc = "handle"
    /\ IF ~IsMapping(cur.msg)
       THEN \* a str has no get(): AttributeError, which except Empty does not catch
            /\ wpc' = "crashed"
            /\ exc' = "AttributeError"
            /\ log' = log
       ELSE IF ActionOf(cur.msg) # "save_point_cloud"
       THEN \* print(f"Unknown message: {msg}"); return
            /\ wpc' = "loop"
            /\ exc' = exc
            /\ log' = Append(log, Returned(cur.id))
       ELSE /\ wpc' = "mkdir"
            /\ exc' = exc
            /\ log' = log
    /\ UNCHANGED startupVars
    /\ UNCHANGED <<ppc, queue, sent, cur, ci, dirs, files>>
    /\ UNCHANGED <<shutdownVars, cameraVars, fusionVars, moreVars>>

\* if not os.path.exists(path): os.makedirs(path); then the for loop starts
MakeDir ==
    /\ wpc = "mkdir"
    /\ LET path == CapturePath(cur.msg)
           made == Event(cur.id, "mkdir", -1, <<>>, path)
       IN  /\ dirs' = IF path \in dirs THEN dirs ELSE dirs \cup Ancestors(path)
           /\ IF Len(cameras) = 0
              THEN /\ wpc' = "loop"
                   /\ log' = log \o <<made, Returned(cur.id)>>
              ELSE /\ wpc' = "update"
                   /\ log' = Append(log, made)
    /\ ci' = 0
    /\ UNCHANGED startupVars
    /\ UNCHANGED <<ppc, queue, sent, exc, cur, files>>
    /\ UNCHANGED <<shutdownVars, cameraVars, fusionVars, moreVars>>

\* camera.update(): returns with the new point cloud, or raises
CameraUpdate ==
    /\ wpc = "update"
    /\ \E ok \in BOOLEAN :
        IF ok
        THEN /\ wpc' = "write"
             /\ exc' = exc
             /\ log' = Append(log, Event(cur.id, "update", ci, CameraAt(ci).ip,
                                         CapturePath(cur.msg)))
        ELSE /\ wpc' = "crashed"
             /\ exc' = "UpdateError"
             /\ log' = log
    /\ UNCHANGED startupVars
    /\ UNCHANGED <<ppc, queue, sent, cur, ci, dirs, files>>
    /\ UNCHANGED <<shutdownVars, cameraVars, fusionVars, moreVars>>

\* with open(camera_path, "wb") as f: f.write(compress_pcd(camera.point_cloud))
\* open() may raise; compress_pcd or write may raise after open() made the file
WriteFile ==
    /\ wpc = "write"
    /\ LET path == CapturePath(cur.msg)
           file == CameraFile(path, ci)
       IN \E outcome \in {"written", "open_raises", "write_raises"} :
            CASE outcome = "written" ->
                    /\ files' = files \cup {file}
                    /\ exc' = exc
                    /\ IF ci + 1 < Len(cameras)
                       THEN /\ ci' = ci + 1
                            /\ wpc' = "update"
                            /\ log' = Append(log, Event(cur.id, "write", file[2],
                                                        CameraAt(ci).ip, file[1]))
                       ELSE /\ ci' = ci
                            /\ wpc' = "loop"
                            /\ log' = log \o << Event(cur.id, "write", file[2],
                                                      CameraAt(ci).ip, file[1]),
                                                Returned(cur.id) >>
              [] outcome = "open_raises" ->
                    /\ wpc' = "crashed"
                    /\ exc' = "WriteError"
                    /\ UNCHANGED <<files, ci, log>>
              [] outcome = "write_raises" ->
                    /\ files' = files \cup {file}
                    /\ wpc' = "crashed"
                    /\ exc' = "WriteError"
                    /\ UNCHANGED <<ci, log>>
    /\ UNCHANGED startupVars
    /\ UNCHANGED <<ppc, queue, sent, cur, dirs>>
    /\ UNCHANGED <<shutdownVars, cameraVars, fusionVars, moreVars>>

Next ==
    \/ SkipDenied
    \/ BeginConstruct
    \/ EndConstruct
    \/ SpawnWorker
    \/ \E msg \in Msgs : queue_msg(msg)
    \/ ParentExit
    \/ WorkerSigterm
    \/ LoopTop
    \/ QueueEmpty
    \/ QueueGet
    \/ HandleMsg
    \/ MakeDir
    \/ CameraUpdate
    \/ WriteFile

Spec == Init /\ [][Next]_vars

(***************************************************************************)
(* Vocabulary of the properties, stated on the messages as they were       *)
(* passed to queue_msg and on the worker's log.                            *)
(***************************************************************************)
LogIdx == 1..Len(log)

\* a mapping whose action field is the string save_point_cloud
AsksSave(m) == "action" \in DOMAIN m /\ m.action = "save_point_cloud"

\* a save command that carries line_name, row_number and capture_number
FullSave(m) ==
    /\ AsksSave(m)
    /\ {"line_name", "row_number", "capture_number"} \subseteq DOMAIN m

\* a mapping that asks for anything else, or names no action
AsksOther(m) == "pystr" \notin DOMAIN m /\ ~AsksSave(m)

\* <root>/<line_name>/row_<row_number>/capture_<capture_number>
Destination(m) ==
    << m.line_name, "row_" \o ToString(m.row_number),
       "capture_" \o ToString(m.capture_number) >>

\* the (directory, index) pairs command id wrote
Written(id) ==
    { <<log[p].path, log[p].cam>> : p \in { q \in LogIdx : log[q].id = id /\ log[q].op = "write" } }

Finished(id) == \E p \in LogIdx : log[p].id = id /\ log[p].op = "done"

FleetSize == Len(cameras)

\* C1: the worker's log handles the commands in enqueue order and one at a
\* time: it starts with command 1, the events of one command are contiguous,
\* and the first event of command k+1 comes right after command k returned.
C1_InOrderOneAtATime ==
    /\ Len(log) > 0 => log[1].id = 1 /\ log[1].op = "get"
    /\ \A p \in 1..(Len(log) - 1) :
        \/ log[p + 1].id = log[p].id /\ log[p + 1].op # "get" /\ log[p].op # "done"
        \/ /\ log[p + 1].id = log[p].id + 1
           /\ log[p].op = "done"
           /\ log[p + 1].op = "get"
    /\ \A p \in LogIdx : log[p].id \in 1..Len(sent)
    /\ wpc \in {"handle", "mkdir", "update", "write"} =>
            cur.msg = sent[cur.id] /\ log[Len(log)].id = cur.id

\* the second command writes a file after the first command wrote two
C1_Witness ==
    /\ Cardinality(Written(1)) = 2
    /\ Written(2) # {}

\* C2: every command enqueued while the worker runs is handed to _handle_msg
\* exactly once: no command is taken from the queue twice, and when the loop
\* ends by itself no enqueued command is left that was never handed over.
C2_ExactlyOnce ==
    /\ [](\A p, q \in LogIdx :
            log[p].op = "get" /\ log[q].op = "get" /\ log[p].id = log[q].id => p = q)
    /\ [][WorkerRunning /\ wpc' = "crashed" => queue' = <<>>]_vars

C4_StepOrderInCommand ==
    /\ \A p \in 1..(Len(log) - 1) :
        log[p + 1].id = log[p].id =>
            /\ log[p].op = "get" => log[p + 1].op \in {"mkdir", "done"}
            /\ log[p].op = "mkdir" =>
                \/ log[p + 1].op = "done"
                \/ log[p + 1].op = "update" /\ log[p + 1].cam = 0
            /\ log[p].op = "update" =>
                /\ log[p + 1].op = "write"
                /\ log[p + 1].cam = log[p].cam
                /\ log[p + 1].ip = log[p].ip
            /\ log[p].op = "write" =>
                \/ log[p + 1].op = "done"
                \/ log[p + 1].op = "update" /\ log[p + 1].cam = log[p].cam + 1
    /\ \A p \in LogIdx :
        log[p].op \in {"update", "write"} =>
            /\ log[p].cam \in 0..(FleetSize - 1)
            /\ log[p].ip = cameras[log[p].cam + 1].ip
            /\ log[p].path \in dirs
            /\ \E q \in 1..(p - 1) : log[q].id = log[p].id /\ log[q].op = "mkdir"
    /\ wpc \in {"update", "write"} =>
            \E p \in LogIdx :
                log[p].id = cur.id /\ log[p].op = "mkdir" /\ log[p].path \in dirs

\* the second camera's file has been written
C4_Witness ==
    \E p \in LogIdx : log[p].op = "write" /\ log[p].cam = 1

\* C5: two save commands for the same line and row with distinct capture
\* numbers write disjoint sets of files, every write of the first-enqueued
\* one precedes every write of the second, and the second writes nothing
\* before the first has written all its files.
C5_DistinctCapturesDisjoint ==
    \A k, l \in 1..Len(sent) :
        ( /\ k < l
          /\ AsksSave(sent[k]) /\ AsksSave(sent[l])
          /\ "capture_number" \in DOMAIN sent[k]
          /\ "capture_number" \in DOMAIN sent[l]
          /\ sent[k].capture_number # sent[l].capture_number
          /\ \A key \in {"line_name", "row_number"} :
                /\ (key \in DOMAIN sent[k]) = (key \in DOMAIN sent[l])
                /\ key \in DOMAIN sent[k] => sent[k][key] = sent[l][key] )
        =>
        /\ Written(k) \cap Written(l) = {}
        /\ \A p, q \in LogIdx :
            /\ log[p].id = k /\ log[p].op = "write"
            /\ log[q].id = l /\ log[q].op = "write"
            => p < q
        /\ Written(l) # {} => Cardinality(Written(k)) = FleetSize

\* both captures have written a file
C5_Witness ==
    /\ Len(sent) = 2
    /\ FullSave(sent[1]) /\ FullSave(sent[2])
    /\ sent[1].capture_number # sent[2].capture_number
    /\ Written(1) # {}
    /\ Written(2) # {}

C7_LoopSurvivesAnyCommand == wpc # "crashed"

\* C8: when the update or the write of one camera fails during a save
\* command, the loop keeps running and every other camera of the fleet gets
\* its file written by that command.
C8_CameraFailureIsolated ==
    exc \in {"UpdateError", "WriteError"} =>
        /\ wpc # "crashed"
        /\ \A j \in 0..(FleetSize - 1) :
            j # ci => \E p \in LogIdx :
                        log[p].id = cur.id /\ log[p].op = "write" /\ log[p].cam = j

\* C9: startup never raises to the caller, and once the worker is started the
\* fleet holds, in enumeration order, exactly the enumerated devices that are
\* not 10.95.76.10 and whose constructor returned.
C9_StartupNeverRaises ==
    /\ ppc # "raised"
    /\ ppc \in {"started", "gone"} =>
        /\ \A k \in 1..Len(devices) : dstat[k] \in {"skipped", "ok", "failed"}
        /\ \E f \in [1..Len(cameras) -> 1..Len(devices)] :
            /\ \A a, b \in 1..Len(cameras) : a < b => f[a] < f[b]
            /\ \A a \in 1..Len(cameras) : cameras[a].ip = devices[f[a]]
            /\ { f[a] : a \in 1..Len(cameras) }
                 = { k \in 1..Len(devices) : devices[k] # OAK0 /\ dstat[k] = "ok" }

\* C10: at most one constructor call is in progress, and while the call for
\* device k is in progress the iteration of every earlier device is over.
C10_SequentialConstruction ==
    /\ Cardinality({ k \in 1..Len(devices) : dstat[k] = "constructing" }) <= 1
    /\ \A k \in 1..Len(devices) :
        dstat[k] = "constructing" =>
            /\ k = di
            /\ \A j \in 1..(k - 1) : dstat[j] \in {"skipped", "ok", "failed"}

\* the second device is under construction after the first one's constructor
\* returned or raised
C10_Witness ==
    /\ Len(devices) = 2
    /\ dstat[1] \in {"ok", "failed"}
    /\ dstat[2] = "constructing"

(***************************************************************************)
(* OakManager.shutdown(), run by the parent on the Camera objects it built *)
(* in __init__; the worker works on the copies the fork gave it.           *)
(***************************************************************************)
\* the call, made once __init__ has returned
OakShutdownBegin ==
    /\ ppc = "started"
    /\ spc = "idle"
    /\ spc' = "cameras"
    /\ si' = 0
    /\ UNCHANGED <<fleetVars, cameraVars, fusionVars, moreVars>>

\* for camera in self._cameras: camera.shutdown()
OakShutdownCamera ==
    /\ ppc = "started"
    /\ spc = "cameras"
    /\ si < Len(cameras)
    /\ si' = si + 1
    /\ UNCHANGED <<spc, fleetVars, cameraVars, fusionVars, moreVars>>

\* if self.camera_process.is_alive(): ... else the method is over
OakShutdownIsAlive ==
    /\ ppc = "started"
    /\ spc = "cameras"
    /\ si = Len(cameras)
    /\ spc' = IF WorkerRunning THEN "join" ELSE "returned"
    /\ UNCHANGED <<si, fleetVars, cameraVars, fusionVars, moreVars>>

\* self.camera_process.join(timeout=10) returns, the worker ended or not,
\* and one of the two messages is printed
OakShutdownJoin ==
    /\ ppc = "started"
    /\ spc = "join"
    /\ spc' = "returned"
    /\ UNCHANGED <<si, fleetVars, cameraVars, fusionVars, moreVars>>

LifeNext ==
    \/ Next
    \/ OakShutdownBegin
    \/ OakShutdownCamera
    \/ OakShutdownIsAlive
    \/ OakShutdownJoin

LifeSpec == Init /\ [][LifeNext]_vars

(***************************************************************************)
(* Which process holds the device handle of self._cameras[k].              *)
(***************************************************************************)
CameraIdx == 1..Len(cameras)

\* Camera(...) opens dai.Device in __init__, which the parent runs; the
\* parent's camera.shutdown() closes it
ParentHolds(k) ==
    /\ ppc \in {"init", "started"}
    /\ k > si

\* the worker is forked after the cameras are built and uses its copies
WorkerHolds(k) == WorkerRunning

Holders(k) ==
    (IF ParentHolds(k) THEN {"parent"} ELSE {}) \cup
    (IF WorkerHolds(k) THEN {"worker"} ELSE {})

\* C11: no process other than the worker ever holds the device handle of a
\* camera of the fleet, so the parent neither opens nor closes one and no
\* handle has two holders.
C11_WorkerOnlyHandles ==
    \A k \in CameraIdx : Holders(k) \subseteq {"worker"}

\* C12: once OakManager.shutdown() has returned, the worker process is no
\* longer alive.
C12_WorkerDeadAfterShutdown ==
    spc = "returned" => ~WorkerRunning

\* the cameras on which the worker has called shutdown(), by its log
ShutdownCalled(l) ==
    { l[p].cam : p \in { q \in 1..Len(l) : l[q].op = "shutdown" } }

\* C14: the step in which a termination signal ends the worker leaves every
\* camera of the fleet with shutdown() called on it by the worker.
C14_SigtermShutsCameras ==
    [][WorkerSigterm => ShutdownCalled(log') = 0..(FleetSize - 1)]_vars

(***************************************************************************)
(* The worker is scheduled: every step that depends on the worker alone is *)
(* taken if it stays possible.  The return of camera.update() waits for    *)
(* the device, signals and the parent are not the worker's to decide.      *)
(***************************************************************************)
FairSpec ==
    /\ Spec
    /\ WF_vars(LoopTop)
    /\ WF_vars(QueueEmpty)
    /\ WF_vars(QueueGet)
    /\ WF_vars(HandleMsg)
    /\ WF_vars(MakeDir)
    /\ WF_vars(WriteFile)

\* C15: once the parent is gone, a running worker eventually is no longer
\* running.
C15_WorkerFollowsParent ==
    (ppc = "gone" /\ WorkerRunning) ~> ~WorkerRunning

(***************************************************************************)
(* One Camera after its construction: the responder thread                 *)
(* (start_streaming_server), the callers of shutdown() and update(), and   *)
(* the device that fills output_queue.  shutdown() and update() are called *)
(* from one thread, one after the other; the responder runs beside them.   *)
(***************************************************************************)
MaxShutdownCalls == 2
MaxUpdates == 2
MaxPoints == 2

\* getOutputQueue(name="out", maxSize=4, blocking=False)
OutQueueSize == 4

\* no fleet: the specifications of a single camera leave these at rest
NoFleet ==
    /\ devices = <<>>
    /\ dstat = <<>>
    /\ di = 1
    /\ cameras = <<>>
    /\ ppc = "init"
    /\ queue = <<>>
    /\ sent = <<>>
    /\ wpc = "none"
    /\ exc = "none"
    /\ cur = NoEntry
    /\ ci = 0
    /\ files = {}
    /\ dirs = {}
    /\ log = <<>>

responderVars == <<server, tpc, shutdown_request, is_shut_down>>
callerVars == <<cpc, calls, after_first>>
updateVars == <<upc, pkt, updates, npoints, ncolors>>
restVars == <<fleetVars, shutdownVars, fusionVars, moreVars>>

\* self._http_streaming_server = ThreadingHTTPServer(("", port), handler):
\* the server is bound and assigned, or the constructor raises (port in
\* use) and the thread ends with the attribute still None
ResponderCreate ==
    /\ tpc = "start"
    /\ \/ /\ server' = "set"
          /\ tpc' = "created"
       \/ /\ tpc' = "dead"
          /\ UNCHANGED server
    /\ UNCHANGED <<shutdown_request, is_shut_down, device, outq>>
    /\ UNCHANGED <<callerVars, updateVars, restVars>>

\* serve_forever() begins: it clears the event before its loop
ResponderServe ==
    /\ tpc = "created"
    /\ is_shut_down' = FALSE
    /\ tpc' = "serving"
    /\ UNCHANGED <<server, shutdown_request, device, outq>>
    /\ UNCHANGED <<callerVars, updateVars, restVars>>

\* the loop of serve_forever() sees the request and leaves; its finally
\* clause resets the request and sets the event
ResponderLoopExit ==
    /\ tpc = "serving"
    /\ shutdown_request
    /\ shutdown_request' = FALSE
    /\ is_shut_down' = TRUE
    /\ tpc' = "closing"
    /\ UNCHANGED <<server, device, outq>>
    /\ UNCHANGED <<callerVars, updateVars, restVars>>

\* server_close(), the last print, and the thread is over
ResponderClose ==
    /\ tpc = "closing"
    /\ tpc' = "dead"
    /\ UNCHANGED <<server, shutdown_request, is_shut_down, device, outq>>
    /\ UNCHANGED <<callerVars, updateVars, restVars>>

\* what shutdown() is meant to settle about a camera
Snapshot == [server |-> server, alive |-> tpc # "dead", device |-> device]

\* shutdown() is called: if self._http_streaming_server: the server's
\* shutdown() sets the request and starts to wait for the event
CamShutdownBegin ==
    /\ cpc = "idle"
    /\ upc = "idle"
    /\ calls < MaxShutdownCalls
    /\ IF server = "set"
       THEN /\ shutdown_request' = TRUE
            /\ cpc' = "wait_server"
       ELSE /\ cpc' = "check_thread"
            /\ UNCHANGED shutdown_request
    /\ UNCHANGED <<server, tpc, is_shut_down, device, outq, calls, after_first>>
    /\ UNCHANGED <<updateVars, restVars>>

\* self._http_streaming_server.shutdown() returns: the event is set
CamServerShutDown ==
    /\ cpc = "wait_server"
    /\ is_shut_down
    /\ cpc' = "check_thread"
    /\ UNCHANGED <<responderVars, device, outq, calls, after_first>>
    /\ UNCHANGED <<updateVars, restVars>>

\* if self.streamingServerThread.is_alive():
CamCheckThread ==
    /\ cpc = "check_thread"
    /\ cpc' = IF tpc # "dead" THEN "join" ELSE "close"
    /\ UNCHANGED <<responderVars, device, outq, calls, after_first>>
    /\ UNCHANGED <<updateVars, restVars>>

\* join(timeout=5) returns because the thread ended
CamJoinReturns ==
    /\ cpc = "join"
    /\ tpc = "dead"
    /\ cpc' = "close"
    /\ UNCHANGED <<responderVars, device, outq, calls, after_first>>
    /\ UNCHANGED <<updateVars, restVars>>

\* join(timeout=5) returns because the five seconds are over
CamJoinTimeout ==
    /\ cpc = "join"
    /\ tpc # "dead"
    /\ cpc' = "close"
    /\ UNCHANGED <<responderVars, device, outq, calls, after_first>>
    /\ UNCHANGED <<updateVars, restVars>>

\* self._device.close(), which does nothing on a closed device, and
\* shutdown() returns
CamCloseDevice ==
    /\ cpc = "close"
    /\ device' = "closed"
    /\ cpc' = "idle"
    /\ calls' = calls + 1
    /\ UNCHANGED <<responderVars, outq>>
    /\ after_first' = IF calls = 0 THEN Snapshot' ELSE after_first
    /\ UNCHANGED <<updateVars, restVars>>

\* the device sends a synchronized packet; the queue does not block and
\* drops its oldest packet when it is full
DeviceDelivers ==
    /\ device = "open"
    /\ outq' = IF outq < OutQueueSize THEN outq + 1 ELSE outq
    /\ UNCHANGED <<responderVars, device, callerVars, updateVars, restVars>>

\* update() is called
UpdateBegin ==
    /\ upc = "idle"
    /\ cpc = "idle"
    /\ updates < MaxUpdates
    /\ upc' = "get"
    /\ updates' = updates + 1
    /\ UNCHANGED <<pkt, npoints, ncolors>>
    /\ UNCHANGED <<responderVars, device, outq, callerVars, restVars>>

\* output_packet = self.output_queue.get(): a packet is taken once there is
\* one, and the call raises on a closed device; the pcl and bgr messages of
\* a packet cover the same pixels
UpdateGet ==
    /\ upc = "get"
    /\ \/ /\ device = "open"
          /\ outq > 0
          /\ outq' = outq - 1
          /\ \E n \in 1..MaxPoints : pkt' = [pcl |-> n, bgr |-> n]
          /\ upc' = "points"
       \/ /\ device = "closed"
          /\ upc' = "idle"
          /\ UNCHANGED <<outq, pkt>>
    /\ UNCHANGED <<updates, npoints, ncolors>>
    /\ UNCHANGED <<responderVars, device, callerVars, restVars>>

\* self.point_cloud.points = o3d.utility.Vector3dVector(transformed_points)
UpdateSetPoints ==
    /\ upc = "points"
    /\ npoints' = pkt.pcl
    /\ upc' = "colors"
    /\ UNCHANGED <<pkt, updates, ncolors>>
    /\ UNCHANGED <<responderVars, device, outq, callerVars, restVars>>

\* self.point_cloud.colors = o3d.utility.Vector3dVector(colors)
UpdateSetColors ==
    /\ upc = "colors"
    /\ ncolors' = pkt.bgr
    /\ upc' = "idle"
    /\ pkt' = NoPacket
    /\ UNCHANGED <<updates, npoints>>
    /\ UNCHANGED <<responderVars, device, outq, callerVars, restVars>>

CameraInit ==
    /\ NoFleet
    /\ ShutdownIdle
    /\ CameraConstructed
    /\ FusionLoaded(NoAlignmentFiles)
    /\ NoCalib
    /\ NoCodec
    /\ NoHttp
    /\ NoLater

\* the steps of a caller inside shutdown()
CamShutdownStep ==
    \/ CamServerShutDown
    \/ CamCheckThread
    \/ CamJoinReturns
    \/ CamJoinTimeout
    \/ CamCloseDevice

\* the steps of a caller inside update()
UpdateStep ==
    \/ UpdateGet
    \/ UpdateSetPoints
    \/ UpdateSetColors

CameraNext ==
    \/ ResponderCreate
    \/ ResponderServe
    \/ ResponderLoopExit
    \/ ResponderClose
    \/ CamShutdownBegin
    \/ CamShutdownStep
    \/ DeviceDelivers
    \/ UpdateBegin
    \/ UpdateStep

CameraSpec == CameraInit /\ [][CameraNext]_vars

\* C13: a caller inside shutdown() never waits without a bound: at every
\* point of the call a step of the caller itself is possible, whatever the
\* responder thread does.
C13_ShutdownNeverWaitsUnbounded ==
    cpc # "idle" => ENABLED CamShutdownStep

\* C16: a caller inside update() never waits without a bound: at every point
\* of the call a step of the caller itself is possible, whether or not the
\* device has delivered a packet.
C16_UpdateNeverWaitsUnbounded ==
    upc # "idle" => ENABLED UpdateStep

\* C17: after a second call of shutdown() the camera is as the first call
\* left it, with the responder stopped and the device closed.
C17_ShutdownIdempotent ==
    (calls >= 2 /\ cpc = "idle") =>
        /\ Snapshot = after_first
        /\ tpc = "dead"
        /\ device = "closed"

\* C18: the device is closed only after the responder thread has ended,
\* whenever shutdown() is called after the thread was started.
C18_ResponderStoppedBeforeClose ==
    device = "closed" => tpc = "dead"

\* C19: the point cloud always holds as many colors as positions, between
\* the steps of update() too.
C19_PointsMatchColors ==
    npoints = ncolors

(***************************************************************************)
(* PointCloudFusion over cameras whose calibration was loaded at their     *)
(* construction: reset_alignment and align_point_clouds.                   *)
(***************************************************************************)
MaxFusionOps == 2

\* voxel_radius = [0.04, 0.02, 0.01], max_iter = [50, 30, 14]
NumStages == 3

AlignmentFiles == { <<>> } \cup { <<a>> : a \in Alignments }

\* reset_alignment() is called
FusionResetBegin ==
    /\ fpc = "idle"
    /\ fops < MaxFusionOps
    /\ fpc' = "reset"
    /\ fi' = 0
    /\ fops' = fops + 1
    /\ fcall' = "reset"
    /\ flog' = <<>>
    /\ UNCHANGED <<alignment, transform_matrix, saved_alignment, fstage>>
    /\ UNCHANGED <<fleetVars, shutdownVars, cameraVars, moreVars>>

\* what a call has done to camera cam
FusionEvent(op, cam, seed, result) ==
    [op |-> op, cam |-> cam, seed |-> seed, result |-> result]

\* a reset that sets the alignment in memory and leaves the file alone
FusionResetCameraUnsaved ==
    /\ fpc = "reset"
    /\ alignment' = [alignment EXCEPT ![fi] = Eye]
    /\ flog' = Append(flog, FusionEvent("reset", fi, alignment[fi], Eye))
    /\ fi' = fi + 1
    /\ fpc' = IF fi + 1 = NumFusionCameras THEN "idle" ELSE "reset"
    /\ UNCHANGED <<saved_alignment, transform_matrix, fstage, fops, fcall>>
    /\ UNCHANGED <<fleetVars, shutdownVars, cameraVars, moreVars>>

\* camera.alignment = np.identity(4); camera.save_point_cloud_alignment(),
\* where np.save replaces the file
FusionResetCamera ==
    /\ fpc = "reset"
    /\ alignment' = [alignment EXCEPT ![fi] = Eye]
    /\ saved_alignment' = [saved_alignment EXCEPT ![fi] = <<Eye>>]
    /\ flog' = Append(flog, FusionEvent("reset", fi, alignment[fi], Eye))
    /\ fi' = fi + 1
    /\ fpc' = IF fi + 1 = NumFusionCameras THEN "idle" ELSE "reset"
    /\ UNCHANGED <<transform_matrix, fstage, fops, fcall>>
    /\ UNCHANGED <<fleetVars, shutdownVars, cameraVars, moreVars>>

\* reference_point_cloud = self._cameras[1].point_cloud
ReferenceCamera == 1

\* for camera in self._cameras[1:]
FirstAligned == 1

\* align_point_clouds() is called
FusionAlignBegin ==
    /\ fpc = "idle"
    /\ fops < MaxFusionOps
    /\ fpc' = "align"
    /\ fi' = FirstAligned
    /\ fstage' = 0
    /\ fops' = fops + 1
    /\ fcall' = "align"
    /\ flog' = <<>>
    /\ UNCHANGED <<alignment, transform_matrix, saved_alignment>>
    /\ UNCHANGED <<fleetVars, shutdownVars, cameraVars, moreVars>>

\* one stage: registration_colored_icp of the camera's cloud against
\* reference_point_cloud, started from camera.alignment;
\* camera.alignment = result_icp.transformation
FusionAlignStage ==
    /\ fpc = "align"
    /\ fstage < NumStages
    /\ \E a \in Alignments :
        /\ alignment' = [alignment EXCEPT ![fi] = a]
        /\ flog' = Append(flog, FusionEvent("stage", fi, alignment[fi], a))
    /\ fstage' = fstage + 1
    /\ UNCHANGED <<transform_matrix, saved_alignment, fpc, fi, fops, fcall>>
    /\ UNCHANGED <<fleetVars, shutdownVars, cameraVars, moreVars>>

\* after the stages: camera.save_point_cloud_alignment(), next camera
FusionAlignSave ==
    /\ fpc = "align"
    /\ fstage = NumStages
    /\ saved_alignment' = [saved_alignment EXCEPT ![fi] = <<alignment[fi]>>]
    /\ flog' = Append(flog, FusionEvent("save", fi, alignment[fi], alignment[fi]))
    /\ fi' = fi + 1
    /\ fstage' = 0
    /\ fpc' = IF fi + 1 = NumFusionCameras THEN "idle" ELSE "align"
    /\ UNCHANGED <<alignment, transform_matrix, fops, fcall>>
    /\ UNCHANGED <<fleetVars, shutdownVars, cameraVars, moreVars>>

\* update(): R, t = transform_matrix[:3, :3], transform_matrix[:3, 3];
\* transformed_points = raw_points @ R.T - t
Transformed(m, x) == x * m[1][1] - m[1][2]

FusionInit ==
    /\ NoFleet
    /\ ShutdownIdle
    /\ CameraConstructed
    /\ \E saved \in [FusionCams -> AlignmentFiles] : FusionLoaded(saved)
    /\ NoCalib
    /\ NoCodec
    /\ NoHttp
    /\ NoLater

FusionNext ==
    \/ FusionResetBegin
    \/ FusionResetCamera
    \/ FusionAlignBegin
    \/ FusionAlignStage
    \/ FusionAlignSave

FusionSpec == FusionInit /\ [][FusionNext]_vars

RawPoints == 0..1

\* C20: when reset_alignment or align_point_clouds has returned, the
\* transform of every camera is the product of its cam_to_world, its
\* alignment as it now is and flip_z, with the translation in millimetres,
\* and update() maps raw points with that product.
C20_TransformFollowsAlignment ==
    fpc = "idle" =>
        \A i \in FusionCams :
            /\ transform_matrix[i] = TransformOf(cam_to_world(i), alignment[i])
            /\ \A x \in RawPoints :
                   Transformed(transform_matrix[i], x) =
                       Transformed(TransformOf(cam_to_world(i), alignment[i]), x)

(***************************************************************************)
(* OakManager.__init__ with the constructor of each Camera taken step by   *)
(* step: the device is opened, _load_calibration reads the two files of    *)
(* the camera and computes the transform, the responder thread is started. *)
(***************************************************************************)
\* the files of one camera: extrinsics_<ip>.npz and alignment_<ip>.npy
CalibFiles ==
    [ext : { <<>>, <<Shift(1)>> }, al : { <<>> } \cup { <<a>> : a \in Alignments }]

NoErrors == [k \in 1..Len(devices) |-> "none"]

CalibInit ==
    /\ devices \in DeviceLists
    /\ dstat = [i \in 1..Len(devices) |-> "pending"]
    /\ di = 1
    /\ cameras = <<>>
    /\ ppc = "init"
    /\ queue = <<>>
    /\ sent = <<>>
    /\ wpc = "none"
    /\ exc = "none"
    /\ cur = NoEntry
    /\ ci = 0
    /\ files = {}
    /\ dirs = {}
    /\ log = <<>>
    /\ ShutdownIdle
    /\ CameraConstructed
    /\ FusionLoaded(NoAlignmentFiles)
    /\ calib \in [1..Len(devices) -> CalibFiles]
    /\ kpc = "none"
    /\ kobj = NoObject
    /\ kerr = NoErrors
    /\ kcams = <<>>
    /\ NoCodec
    /\ NoHttp
    /\ NoLater

calibRest == <<queue, sent, workerVars, shutdownVars, cameraVars, fusionVars,
               codecVars, httpVars, laterVars>>

\* port = int(stream_port_base + device_info.name[-2:]), then the call
\* Camera(device_info, port, ...) begins
CtorBegin ==
    /\ ppc = "init"
    /\ kpc = "none"
    /\ di <= Len(devices)
    /\ dstat[di] = "pending"
    /\ devices[di] # OAK0
    /\ IF IsDecimal(PortString(devices[di]))
       THEN /\ dstat' = [dstat EXCEPT ![di] = "constructing"]
            /\ kpc' = "device"
            /\ ppc' = ppc
       ELSE /\ ppc' = "raised"
            /\ UNCHANGED <<dstat, kpc>>
    /\ kobj' = NoObject
    /\ UNCHANGED <<devices, di, cameras, calib, kerr, kcams, calibRest>>

\* the constructor raises e: except Exception prints, sleep(2), next device
CtorRaises(e) ==
    /\ dstat' = [dstat EXCEPT ![di] = "failed"]
    /\ kerr' = [kerr EXCEPT ![di] = e]
    /\ di' = di + 1
    /\ kpc' = "none"
    /\ UNCHANGED <<devices, cameras, ppc, calib, kobj, kcams, calibRest>>

\* self._device = dai.Device(self.pipeline, device_info) and the queues
CtorOpenDevice ==
    /\ kpc = "device"
    /\ \/ /\ kpc' = "extrinsics"
          /\ UNCHANGED <<devices, dstat, di, cameras, ppc, calib, kobj, kerr,
                         kcams, calibRest>>
       \/ CtorRaises("RuntimeError")

\* try: self.cam_to_world = np.load(path)["cam_to_world"]
\* except Exception: print("ERROR: No extrinsic calibration data ...")
CtorLoadExtrinsics ==
    /\ kpc = "extrinsics"
    /\ kobj' = [kobj EXCEPT !.cam_to_world = calib[di].ext]
    /\ kpc' = "alignment"
    /\ UNCHANGED <<devices, dstat, di, cameras, ppc, calib, kerr, kcams,
                   calibRest>>

\* try: self.alignment = np.load(...)  except Exception: np.eye(4)
CtorLoadAlignment ==
    /\ kpc = "alignment"
    /\ kobj' = [kobj EXCEPT !.alignment = <<LoadAlignment(calib[di].al)>>]
    /\ kpc' = "transform"
    /\ UNCHANGED <<devices, dstat, di, cameras, ppc, calib, kerr, kcams,
                   calibRest>>

\* self.transform_matrix = self.cam_to_world @ self.alignment @ flip_z reads
\* the attribute cam_to_world, which exists only if the extrinsics loaded
CtorTransform ==
    /\ kpc = "transform"
    /\ IF kobj.cam_to_world = <<>>
       THEN CtorRaises("AttributeError")
       ELSE /\ kobj' = [kobj EXCEPT !.transform_matrix =
                           <<TransformOf(kobj.cam_to_world[1], kobj.alignment[1])>>]
            /\ kpc' = "thread"
            /\ UNCHANGED <<devices, dstat, di, cameras, ppc, calib, kerr,
                           kcams, calibRest>>

\* the responder thread is started, the constructor returns and
\* self._cameras.append(...) takes the camera; sleep(2), next device
CtorReturns ==
    /\ kpc = "thread"
    /\ cameras' = Append(cameras,
                     [ip |-> devices[di],
                      stream_port |-> IntOf(PortString(devices[di]))])
    /\ kcams' = Append(kcams, [dev |-> di, alignment |-> kobj.alignment,
                               transform_matrix |-> kobj.transform_matrix])
    /\ dstat' = [dstat EXCEPT ![di] = "ok"]
    /\ di' = di + 1
    /\ kpc' = "none"
    /\ UNCHANGED <<devices, ppc, calib, kobj, kerr, calibRest>>

CalibNext ==
    \/ SkipDenied
    \/ CtorBegin
    \/ CtorOpenDevice
    \/ CtorLoadExtrinsics
    \/ CtorLoadAlignment
    \/ CtorTransform
    \/ CtorReturns
    \/ SpawnWorker

CalibSpec == CalibInit /\ [][CalibNext]_vars

\* C21: no constructor fails for a missing calibration file, a failed
\* construction is one whose device could not be opened, and a camera built
\* without an alignment file has the identity as its alignment.
C21_MissingCalibrationTolerated ==
    /\ \A k \in 1..Len(devices) :
           dstat[k] = "failed" => kerr[k] = "RuntimeError"
    /\ \A j \in 1..Len(kcams) :
           calib[kcams[j].dev].al = <<>> => kcams[j].alignment = <<Eye>>

\* C22: when reset_alignment has returned, the alignment of every camera
\* is the identity, in memory and in its file.
C22_ResetLeavesIdentity ==
    (fpc = "idle" /\ fcall = "reset") =>
        \A i \in FusionCams :
            /\ alignment[i] = Eye
            /\ saved_alignment[i] = <<Eye>>

\* a reset has returned for a fleet in which some camera was constructed
\* with an alignment other than the identity
C22_Witness ==
    /\ fpc = "idle"
    /\ fcall = "reset"
    /\ \E i \in FusionCams :
           transform_matrix[i] # TransformOf(cam_to_world(i), Eye)

\* C23: no step of align_point_clouds changes the alignment of the
\* reference camera, in memory or in its file.
C23_ReferenceUntouched ==
    [][(fpc = "align") =>
          /\ alignment'[ReferenceCamera] = alignment[ReferenceCamera]
          /\ saved_alignment'[ReferenceCamera] = saved_alignment[ReferenceCamera]
      ]_vars

\* the stages the last call ran on camera i
StagesOf(i) == SelectSeq(flog, LAMBDA e : e.op = "stage" /\ e.cam = i)

\* C24: when align_point_clouds has returned, every camera other than the
\* reference went through all stages, each started from the result of the
\* one before, and its file holds its final alignment.
C24_EveryOtherCameraRefined ==
    (fpc = "idle" /\ fcall = "align") =>
        \A i \in FusionCams \ {ReferenceCamera} :
            /\ Len(StagesOf(i)) = NumStages
            /\ \A s \in 2..NumStages :
                   StagesOf(i)[s].seed = StagesOf(i)[s - 1].result
            /\ \E p \in 1..Len(flog) : flog[p].op = "save" /\ flog[p].cam = i
            /\ saved_alignment[i] = <<alignment[i]>>

(***************************************************************************)
(* compress_pcd and decompress_drc.  A color channel is the rational       *)
(* color_in / ColorGrid of the unit interval; the channel that comes back  *)
(* is color_out / 255.  DracoPy carries the 8-bit colors as they are; what *)
(* DracoPy.decode hands back for a blob that compress_pcd did not write is *)
(* any object: an attribute may be missing, None, or an array with one row *)
(* per point.                                                              *)
(***************************************************************************)
ColorGrid == 1000

\* (np.asarray(pcd.colors) * 255).astype(np.uint8), with 256 for 255
ToByteScale256(n) == ((256 * n) \div ColorGrid) % 256

\* (np.asarray(pcd.colors) * 255).astype(np.uint8): the product is cut to
\* its integer part and kept modulo 2^8
ToByte(n) == ((255 * n) \div ColorGrid) % 256

Haves == {"absent", "none", "array"}

\* the objects DracoPy.decode can return, m the number of decoded points
Payloads ==
    { [points |-> Section(hp, IF hp = "array" THEN m ELSE 0),
       colors |-> Section(hc, IF hc = "array" THEN m ELSE 0)] :
         hp \in Haves, hc \in Haves, m \in 0..MaxPoints }

Raised(kind) == [kind |-> kind, npoints |-> 0, ncolors |-> 0]

\* decompress_drc after DracoPy.decode, with the check of colors left out
\* and the colors set only when there are some
decompress_drc_unchecked(p) ==
    IF p.points.has = "absent" THEN Raised("ValueError")
    ELSE IF p.points.has = "none" THEN Raised("TypeError")
    ELSE [kind |-> "cloud", npoints |-> p.points.n, ncolors |-> p.colors.n]

\* decompress_drc after DracoPy.decode: the two hasattr checks, then the
\* two conversions, then the cloud
decompress_drc(p) ==
    IF p.points.has = "absent" THEN Raised("ValueError")
    ELSE IF p.colors.has = "absent" THEN Raised("ValueError")
    ELSE IF p.points.has = "none" THEN Raised("TypeError")
    ELSE IF p.colors.has = "none" THEN Raised("TypeError")
    ELSE [kind |-> "cloud", npoints |-> p.points.n, ncolors |-> p.colors.n]

CodecInit ==
    /\ NoFleet
    /\ ShutdownIdle
    /\ CameraConstructed
    /\ FusionLoaded(NoAlignmentFiles)
    /\ NoCalib
    /\ NoCodec
    /\ NoHttp
    /\ NoLater

codecRest == <<fleetVars, shutdownVars, cameraVars, fusionVars, calibVars,
               httpVars, laterVars>>

\* compress_pcd(pcd) for a cloud with a channel of value n / ColorGrid
CompressPcd ==
    /\ color_in = -1
    /\ payload = NoPayload
    /\ drc_result = NoResult
    /\ \E n \in 0..ColorGrid :
        /\ color_in' = n
        /\ color_byte' = ToByte(n)
    /\ UNCHANGED <<color_out, payload, drc_result>>
    /\ UNCHANGED codecRest

\* DracoPy.decode of the blob compress_pcd wrote
DecodeOwn ==
    /\ color_byte >= 0
    /\ payload = NoPayload
    /\ \E m \in 0..MaxPoints :
        payload' = [points |-> Section("array", m), colors |-> Section("array", m)]
    /\ UNCHANGED <<color_in, color_byte, color_out, drc_result>>
    /\ UNCHANGED codecRest

\* DracoPy.decode of a blob from elsewhere
DecodeForeign ==
    /\ color_in = -1
    /\ payload = NoPayload
    /\ drc_result = NoResult
    /\ payload' \in Payloads
    /\ UNCHANGED <<color_in, color_byte, color_out, drc_result>>
    /\ UNCHANGED codecRest

\* DracoPy.decode raises on a blob from elsewhere
DecodeRaises ==
    /\ color_in = -1
    /\ payload = NoPayload
    /\ drc_result = NoResult
    /\ drc_result' = Raised("DecodeError")
    /\ UNCHANGED <<color_in, color_byte, color_out, payload>>
    /\ UNCHANGED codecRest

\* the rest of decompress_drc; a returned cloud has colors k / 255
DecompressDrc ==
    /\ payload # NoPayload
    /\ drc_result = NoResult
    /\ drc_result' = decompress_drc(payload)
    /\ color_out' = IF color_byte >= 0 /\ drc_result'.kind = "cloud"
                    THEN color_byte ELSE -1
    /\ UNCHANGED <<color_in, color_byte, payload>>
    /\ UNCHANGED codecRest

CodecNext ==
    \/ CompressPcd
    \/ DecodeOwn
    \/ DecodeForeign
    \/ DecodeRaises
    \/ DecompressDrc

CodecSpec == CodecInit /\ [][CodecNext]_vars

\* C26: a channel of value c in the unit interval comes back from
\* decompress_drc(compress_pcd(.)) within 1/255 of c:
\* |color_in / ColorGrid - color_out / 255| <= 1/255.
C26_ColorWithinOne255th ==
    (drc_result.kind = "cloud" /\ color_in >= 0) =>
        /\ color_out \in 0..255
        /\ 255 * color_in - color_out * ColorGrid <= ColorGrid
        /\ color_out * ColorGrid - 255 * color_in <= ColorGrid

\* a channel came back with another value than it went in with
C26_Witness ==
    /\ drc_result.kind = "cloud"
    /\ color_in > 0
    /\ 255 * color_in # color_out * ColorGrid

\* C27: decompress_drc on a payload without positions or without colors
\* ends in an error and returns no cloud, with neither positions nor colors.
C27_MissingSectionFails ==
    (drc_result # NoResult /\ payload # NoPayload
       /\ (payload.points.has # "array" \/ payload.colors.has # "array")) =>
        /\ drc_result.kind \in {"ValueError", "TypeError"}
        /\ drc_result.npoints = 0
        /\ drc_result.ncolors = 0

\* a payload with positions for some points and no colors was refused
C27_Witness ==
    /\ payload.points.has = "array"
    /\ payload.points.n > 0
    /\ payload.colors.has # "array"
    /\ drc_result.kind \in {"ValueError", "TypeError"}

(***************************************************************************)
(* The video responder of one camera: MJPEGHandler over the queue "video", *)
(* beside update() over the queue "out".                                   *)
(***************************************************************************)
MaxFrames == 2

\* getOutputQueue(name="video", maxSize=2, blocking=False)
VideoQueueSize == 2

\* if self.path != "/rgb"
StreamPath == "/rgb"

Methods == {"GET", "OPTIONS"}

Paths == {"/rgb", "/", "/rgb/", "/rgb?x=1", "/video", "/RGB"}

Multipart ==
    <<"Content-Type", "multipart/x-mixed-replace; boundary=--jpgboundary">>

\* the four headers end_headers adds; PORT stands for the configured port
CorsHeaders ==
    { <<"Access-Control-Allow-Origin", "http://0.0.0.0:PORT">>,
      <<"Access-Control-Allow-Methods", "GET, OPTIONS">>,
      <<"Access-Control-Allow-Headers", "Content-Type">>,
      <<"Access-Control-Allow-Private-Network", "true">> }

\* an end_headers that passes on what the method sent and adds nothing
end_headers_plain(sent_headers) == sent_headers

\* MJPEGHandler.end_headers: the four send_header calls, then
\* super().end_headers()
end_headers(sent_headers) == sent_headers \cup CorsHeaders

\* frames: the frames written to the client so far
Response(status, headers, body) ==
    [status |-> status, headers |-> headers, body |-> body, frames |-> 0]

\* MJPEGHandler.do_OPTIONS
do_OPTIONS == Response(204, end_headers({}), "none")

\* MJPEGHandler.do_GET up to the loop over the frames
do_GET(path) ==
    IF path # StreamPath
    THEN Response(404, end_headers({}), "none")
    ELSE Response(200, end_headers({Multipart}), "stream")

httpRest == <<fleetVars, shutdownVars, cameraVars, fusionVars, calibVars,
              codecVars, laterVars>>

\* the device puts a frame on the queue "video"; the queue does not block,
\* a full one drops its oldest frame
VideoDelivers ==
    /\ device = "open"
    /\ videoq' = IF videoq < VideoQueueSize THEN videoq + 1 ELSE videoq
    /\ UNCHANGED <<hpc, hreq, hresp>>
    /\ UNCHANGED httpRest

\* a client sends a request to the serving responder, which answers up to
\* the end of the headers
HttpRequest ==
    /\ tpc = "serving"
    /\ hpc \in {"none", "done"}
    /\ \E method \in Methods, path \in Paths :
        /\ hreq' = [method |-> method, path |-> path]
        /\ hresp' = IF method = "OPTIONS" THEN do_OPTIONS ELSE do_GET(path)
    /\ hpc' = IF hresp'.body = "stream" THEN "streaming" ELSE "done"
    /\ UNCHANGED videoq
    /\ UNCHANGED httpRest

\* a responder that takes its frames from the queue of update()
StreamFrameFromOut ==
    /\ hpc = "streaming"
    /\ device = "open"
    /\ outq > 0
    /\ outq' = outq - 1
    /\ UNCHANGED <<responderVars, device, callerVars, updateVars, restVars>>

\* frame = frame_queue.get().getData().tobytes(), written to the client:
\* the handler waits until the queue "video" holds a frame
StreamFrame ==
    /\ hpc = "streaming"
    /\ device = "open"
    /\ videoq > 0
    /\ hresp.frames < MaxFrames
    /\ videoq' = videoq - 1
    /\ hresp' = [hresp EXCEPT !.frames = @ + 1]
    /\ UNCHANGED <<hpc, hreq>>
    /\ UNCHANGED httpRest

\* the write or the get raises (the client has left): except: return
StreamEnd ==
    /\ hpc = "streaming"
    /\ hpc' = "done"
    /\ UNCHANGED <<videoq, hreq, hresp>>
    /\ UNCHANGED httpRest

StreamNext ==
    \/ ResponderCreate
    \/ ResponderServe
    \/ VideoDelivers
    \/ HttpRequest
    \/ StreamFrame
    \/ StreamEnd
    \/ DeviceDelivers
    \/ UpdateBegin
    \/ UpdateStep

StreamSpec == CameraInit /\ [][StreamNext]_vars

HeaderNames(headers) == { h[1] : h \in headers }

\* C28: the responder answers an OPTIONS request with 204, a GET for a path
\* other than the stream path with 404, a GET for the stream path with 200
\* and a multipart stream, and each of these answers has the CORS headers.
C28_ResponderAnswers ==
    (hpc # "none") =>
        /\ hreq.method = "OPTIONS" => hresp.status = 204 /\ hresp.body = "none"
        /\ (hreq.method = "GET" /\ hreq.path # "/rgb") =>
               hresp.status = 404 /\ hresp.body = "none"
        /\ (hreq.method = "GET" /\ hreq.path = "/rgb") =>
               /\ hresp.status = 200
               /\ hresp.body = "stream"
               /\ Multipart \in hresp.headers
        /\ { "Access-Control-Allow-Origin", "Access-Control-Allow-Methods",
             "Access-Control-Allow-Headers",
             "Access-Control-Allow-Private-Network" }
               \subseteq HeaderNames(hresp.headers)

\* a GET for a path one character away from the stream path was answered
C28_Witness ==
    /\ hpc = "done"
    /\ hreq = [method |-> "GET", path |-> "/rgb/"]
    /\ hresp.status = 404

\* C29: whatever the responder and its client are doing, a packet on the
\* queue of update() stays there until update() takes it, and update() can
\* take each of its steps as soon as that queue holds a packet.
C29_ResponderNeverBlocksUpdate ==
    /\ []((upc = "get" /\ device = "open" /\ outq > 0) => ENABLED UpdateGet)
    /\ []((upc = "points") => ENABLED UpdateSetPoints)
    /\ []((upc = "colors") => ENABLED UpdateSetColors)
    /\ [][outq' < outq => (upc = "get" /\ upc' = "points")]_vars

\* update() has taken its packet while a client of the responder waits for
\* a frame on the empty queue "video"
C29_Witness ==
    /\ hpc = "streaming"
    /\ videoq = 0
    /\ upc = "points"

(***************************************************************************)
(* Save commands that lack some of line_name, row_number, capture_number,  *)
(* sent to the fleet of Spec.                                              *)
(***************************************************************************)
PartialMsgs ==
    { [action |-> "save_point_cloud", row_number |-> 2, capture_number |-> 0],
      [action |-> "save_point_cloud", line_name |-> "rowA", capture_number |-> 0],
      [action |-> "save_point_cloud", line_name |-> "rowA", row_number |-> 2],
      [action |-> "save_point_cloud"] }

PartialNext ==
    \/ SkipDenied
    \/ BeginConstruct
    \/ EndConstruct
    \/ SpawnWorker
    \/ \E msg \in PartialMsgs : queue_msg(msg)
    \/ ParentExit
    \/ WorkerSigterm
    \/ LoopTop
    \/ QueueEmpty
    \/ QueueGet
    \/ HandleMsg
    \/ MakeDir
    \/ CameraUpdate
    \/ WriteFile

PartialSpec == Init /\ [][PartialNext]_vars

\* the value of a field, or the placeholder
FieldOr(m, key, placeholder) ==
    IF key \in DOMAIN m
    THEN (IF key = "line_name" THEN m[key] ELSE ToString(m[key]))
    ELSE placeholder

PlaceholderPath(m) ==
    << FieldOr(m, "line_name", "X"),
       "row_" \o FieldOr(m, "row_number", "X"),
       "capture_" \o FieldOr(m, "capture_number", "X") >>

\* C30: after a save command that lacks line_name, row_number or
\* capture_number has returned, the directory with "X" in the place of each
\* missing field exists and the command wrote camera-<i>.drc there for every
\* camera of the fleet, and nothing elsewhere.
C30_MissingFieldsPlaceholder ==
    \A id \in 1..Len(sent) :
        (AsksSave(sent[id]) /\ ~FullSave(sent[id]) /\ Finished(id)) =>
            /\ PlaceholderPath(sent[id]) \in dirs
            /\ Written(id) =
                 { <<PlaceholderPath(sent[id]), i>> : i \in 0..(FleetSize - 1) }
            /\ Written(id) \subseteq files

\* a command with none of the three fields has returned on a fleet with a
\* camera, whose file is under X/row_X/capture_X
C30_Witness ==
    /\ FleetSize >= 1
    /\ Len(sent) >= 1
    /\ sent[1] = [action |-> "save_point_cloud"]
    /\ Finished(1)
    /\ << <<"X", "row_X", "capture_X">>, 0 >> \in files

(***************************************************************************)
(* The lifecycle of a fleet, read off the parent's position: __init__      *)
(* before its loop, inside its loop, returned with the worker started,     *)
(* shutdown() in progress, shutdown() returned.                            *)
(***************************************************************************)
Phase ==
    IF spc = "returned" THEN "STOPPED"
    ELSE IF spc # "idle" THEN "SHUTTING_DOWN"
    ELSE IF ppc \in {"started", "gone"} THEN "RUNNING"
    ELSE IF \E k \in 1..Len(devices) : dstat[k] # "pending" THEN "DISCOVERING"
    ELSE "UNINITIALIZED"

PhaseRank(ph) ==
    CASE ph = "UNINITIALIZED" -> 0
      [] ph = "DISCOVERING" -> 1
      [] ph = "RUNNING" -> 2
      [] ph = "SHUTTING_DOWN" -> 3
      [] ph = "STOPPED" -> 4

\* C32: the lifecycle never steps backwards, and every step in which the
\* worker takes or carries out a capture command is taken while the fleet is
\* RUNNING.
C32_HandledOnlyWhileRunning ==
    [][ /\ PhaseRank(Phase') >= PhaseRank(Phase)
        /\ (Len(log') > Len(log) /\ AsksSave(sent[log'[Len(log')].id]))
              => Phase = "RUNNING" ]_vars

(***************************************************************************)
(* The stream ports OakManager.__init__ computes, over addresses that may  *)
(* agree in their last two characters.                                     *)
(***************************************************************************)
\* "10.95.76.112" and "10.95.77.11"
OAK112 == <<"1", "0", ".", "9", "5", ".", "7", "6", ".", "1", "1", "2">>
OAK7711 == <<"1", "0", ".", "9", "5", ".", "7", "7", ".", "1", "1">>
OAK3 == <<"1", "0", ".", "9", "5", ".", "7", "6", ".", "1", "3">>

PortNames == {OAK0, OAK1, OAK2, OAK3, OAK5, OAK112, OAK7711}

PortDeviceLists ==
    { l \in UNION { [1..n -> PortNames] : n \in 0..MaxDevices } :
        \A i, j \in 1..Len(l) : i # j => l[i] # l[j] }

portRest == <<fleetVars, shutdownVars, cameraVars, fusionVars, calibVars,
              codecVars, httpVars, fleetsVars, serverVars, dispatchVars, followVars, captureVars>>

PortInit ==
    /\ NoFleet
    /\ ShutdownIdle
    /\ CameraConstructed
    /\ FusionLoaded(NoAlignmentFiles)
    /\ NoCalib
    /\ NoCodec
    /\ NoHttp
    /\ paddr \in PortDeviceLists
    /\ pidx = 1
    /\ ports = <<>>
    /\ perr = "none"
    /\ NoFleets
    /\ NoServer
    /\ NoDispatch
    /\ NoFollow
    /\ NoCapture

\* if device_info.name == "10.95.76.10": continue
PortSkipDenied ==
    /\ perr = "none"
    /\ pidx <= Len(paddr)
    /\ paddr[pidx] = OAK0
    /\ pidx' = pidx + 1
    /\ UNCHANGED <<paddr, ports, perr>>
    /\ UNCHANGED portRest

\* port = int(stream_port_base + device_info.name[-2:]); Camera(device_info,
\* port, ...) is called with it, and the loop goes on whether it raised or not
PortAssign ==
    /\ perr = "none"
    /\ pidx <= Len(paddr)
    /\ paddr[pidx] # OAK0
    /\ IF IsDecimal(PortString(paddr[pidx]))
       THEN /\ ports' = Append(ports, [name |-> paddr[pidx],
                                       port |-> IntOf(PortString(paddr[pidx]))])
            /\ pidx' = pidx + 1
            /\ UNCHANGED perr
       ELSE /\ perr' = "ValueError"
            /\ UNCHANGED <<ports, pidx>>
    /\ UNCHANGED paddr
    /\ UNCHANGED portRest

PortNext ==
    \/ PortSkipDenied
    \/ PortAssign

PortSpec == PortInit /\ [][PortNext]_vars

\* C34: two distinct devices are never given the same stream port.
C34_DistinctPorts ==
    \A i, j \in 1..Len(ports) :
        ports[i].name # ports[j].name => ports[i].port # ports[j].port

(***************************************************************************)
(* Several OakManager objects in one process.  The class of                *)
(* cameraBackend/OakManager.py takes its queue as an argument with the     *)
(* default Queue(); the class of OakManager.py makes its own.              *)
(***************************************************************************)
MaxFleetMsgs == 2

FleetClasses == {"cameraBackend", "backend"}

\* self.queue = queue, with queue the argument or its default;
\* self._queue = Queue() in the other class
QueueOf(cls, passed, fresh) ==
    IF cls = "backend" THEN fresh
    ELSE IF passed THEN fresh ELSE DefaultQueue

fleetsRest == <<fleetVars, shutdownVars, cameraVars, fusionVars, calibVars,
                codecVars, httpVars, portVars, serverVars, dispatchVars, followVars, captureVars>>

FleetsInit ==
    /\ NoFleet
    /\ ShutdownIdle
    /\ CameraConstructed
    /\ FusionLoaded(NoAlignmentFiles)
    /\ NoCalib
    /\ NoCodec
    /\ NoHttp
    /\ NoPorts
    /\ NoFleets
    /\ NoServer
    /\ NoDispatch
    /\ NoFollow
    /\ NoCapture

\* OakManager(...) is called, with a queue of the caller's own or without
\* one, and starts its worker
FleetConstruct ==
    /\ Len(fleets) < MaxFleets
    /\ \E cls \in FleetClasses, passed \in BOOLEAN :
        /\ cls = "backend" => ~passed
        /\ fleets' = Append(fleets,
               [cls |-> cls, queue |-> QueueOf(cls, passed, Len(fleets) + 1)])
    /\ UNCHANGED <<heapq, fgot, fsent>>
    /\ UNCHANGED fleetsRest

\* a command is put on the queue of fleet f: queue_msg, or queue.put
FleetPut(f) ==
    /\ fsent < MaxFleetMsgs
    /\ heapq' = [heapq EXCEPT ![fleets[f].queue] = Append(@, [for |-> f])]
    /\ fsent' = fsent + 1
    /\ UNCHANGED <<fleets, fgot>>
    /\ UNCHANGED fleetsRest

\* the worker of fleet g: msg = self.queue.get(timeout=0.1)
FleetGet(g) ==
    /\ heapq[fleets[g].queue] # <<>>
    /\ heapq' = [heapq EXCEPT ![fleets[g].queue] = Tail(@)]
    /\ fgot' = fgot \cup {[by |-> g, for |-> Head(heapq[fleets[g].queue]).for]}
    /\ UNCHANGED <<fleets, fsent>>
    /\ UNCHANGED fleetsRest

FleetsNext ==
    \/ FleetConstruct
    \/ \E f \in 1..Len(fleets) : FleetPut(f)
    \/ \E g \in 1..Len(fleets) : FleetGet(g)

FleetsSpec == FleetsInit /\ [][FleetsNext]_vars

\* C31: no two fleets hold the same queue, and the worker of a fleet takes
\* only commands that were put for that fleet.
C31_FleetsShareNothing ==
    /\ \A f, g \in 1..Len(fleets) : f # g => fleets[f].queue # fleets[g].queue
    /\ \A e \in fgot : e.by = e.for

(***************************************************************************)
(* main.py: setup_services, the lifespan around it, and handle_sigterm.    *)
(***************************************************************************)
MaxConfigs == 3

\* the ports of the configs of a file; 0 marks a service that is left out
ConfigPorts == {0, 1, 2}

ConfigLists == UNION { [1..n -> ConfigPorts] : n \in 0..MaxConfigs }

\* def setup_services(args: argparse.Namespace)
SetupParams == 1

\* for cfg in base_config_list.configs: if cfg.port == 0: continue; append
ServiceConfigs(cfgs) == SelectSeq(cfgs, LAMBDA port : port # 0)

serverRest == <<fleetVars, shutdownVars, cameraVars, fusionVars, calibVars,
                codecVars, httpVars, portVars, fleetsVars, dispatchVars, followVars, captureVars>>

ServerInit ==
    /\ NoFleet
    /\ ShutdownIdle
    /\ CameraConstructed
    /\ FusionLoaded(NoAlignmentFiles)
    /\ NoCalib
    /\ NoCodec
    /\ NoHttp
    /\ NoPorts
    /\ NoFleets
    /\ NoDispatch
    /\ NoFollow
    /\ NoCapture
    /\ mpc = "imported"
    /\ mcfg \in ConfigLists
    /\ marity = 0
    /\ g_oak = "None"
    /\ services = NoServices
    /\ mexc = "none"
    /\ msig = FALSE
    /\ mshut = 0

\* setup_services is called with n positional arguments: with one by the
\* lifespan, with two (the arguments and a queue) by the test; a call with
\* more arguments than the def has parameters raises TypeError
SetupCall ==
    /\ mpc = "imported"
    /\ \E n \in 1..2 :
        /\ marity' = n
        /\ IF n > SetupParams
           THEN mpc' = "failed" /\ mexc' = "TypeError"
           ELSE mpc' = "config" /\ mexc' = mexc
    /\ UNCHANGED <<mcfg, g_oak, services, msig, mshut>>
    /\ UNCHANGED serverRest

\* the config list is read and filtered, the event manager is built on it
SetupEventManager ==
    /\ mpc = "config"
    /\ services' = [services EXCEPT !.event_manager = ServiceConfigs(mcfg)]
    /\ mpc' = "manager"
    /\ UNCHANGED <<mcfg, marity, g_oak, mexc, msig, mshut>>
    /\ UNCHANGED serverRest

\* oak_manager = OakManager(): an assignment to a local name of
\* setup_services, the module global is not touched; the constructor can
\* raise
SetupOakManager ==
    /\ mpc = "manager"
    /\ \/ /\ services' = [services EXCEPT !.oak_manager = "OakManager"]
          /\ mpc' = "oak"
          /\ UNCHANGED mexc
       \/ /\ mpc' = "failed"
          /\ mexc' = "ValueError"
          /\ UNCHANGED services
    /\ UNCHANGED <<mcfg, marity, g_oak, msig, mshut>>
    /\ UNCHANGED serverRest

\* the dict is returned with "sv": config.StateVars(), and the lifespan
\* yields it
SetupReturn ==
    /\ mpc = "oak"
    /\ services' = [services EXCEPT !.sv = "StateVars"]
    /\ mpc' = "serving"
    /\ UNCHANGED <<mcfg, marity, g_oak, mexc, msig, mshut>>
    /\ UNCHANGED serverRest

\* the server ends the lifespan:
\* if services["oak_manager"] is not None: services["oak_manager"].shutdown()
LifespanExit ==
    /\ mpc = "serving"
    /\ mshut' = IF services.oak_manager # "None" THEN mshut + 1 ELSE mshut
    /\ mpc' = "stopped"
    /\ UNCHANGED <<mcfg, marity, g_oak, services, mexc, msig>>
    /\ UNCHANGED serverRest

\* SIGTERM reaches handle_sigterm:
\* if oak_manager is not None: oak_manager.shutdown(); then sys.exit(0)
HandleSigterm ==
    /\ mpc \in {"serving", "stopped"}
    /\ msig' = TRUE
    /\ mshut' = IF g_oak # "None" THEN mshut + 1 ELSE mshut
    /\ mpc' = "exited"
    /\ UNCHANGED <<mcfg, marity, g_oak, services, mexc>>
    /\ UNCHANGED serverRest

ServerNext ==
    \/ SetupCall
    \/ SetupEventManager
    \/ SetupOakManager
    \/ SetupReturn
    \/ LifespanExit
    \/ HandleSigterm

ServerSpec == ServerInit /\ [][ServerNext]_vars

\* C33: a call of setup_services with the arguments and a queue does not
\* raise, and what it returns has no service that is None.
C33_SetupServicesComplete ==
    marity = 2 =>
        /\ mpc # "failed"
        /\ mpc \in {"serving", "stopped", "exited"} =>
              \A k \in DOMAIN services : services[k] # "None"

\* C35: when the server process has exited on a SIGTERM that came after its
\* services were set up, OakManager.shutdown() was called before.
C35_SigtermShutsOakManager ==
    (mpc = "exited" /\ msig) => mshut > 0

(***************************************************************************)
(* cameraBackend/oakManager.py: the dispatch of the loop of startCameras.  *)
(* A string is a value held by an object; == compares the values, is and   *)
(* is not compare the objects.                                             *)
(***************************************************************************)
MaxDispatchMsgs == 3

\* the object of a literal of the source text of the worker
LiteralObj == 0

Str(v, o) == [val |-> v, obj |-> o]

SavePointCloudLiteral == Str("save_point_cloud", LiteralObj)

\* the actions a sender puts under "action"; "absent" is a message without
\* that key
DispatchActions == {"save_point_cloud", "align_point_clouds",
                    "reset_alignment", "absent"}

\* a is not b
IsNot(a, b) == a.obj # b.obj

\* msg.get("action", "No action"): the value that arrived, or the default,
\* which is a literal of the worker
MsgAction(msg) ==
    IF msg.val = "absent" THEN Str("No action", LiteralObj) ELSE msg

\* the branch the loop body takes for the string action
DispatchBranch(action) ==
    IF IsNot(action, SavePointCloudLiteral) THEN "unknown" ELSE "capture"

ParkedBase ==
    /\ NoFleet
    /\ ShutdownIdle
    /\ CameraConstructed
    /\ FusionLoaded(NoAlignmentFiles)
    /\ NoCalib
    /\ NoCodec
    /\ NoHttp

dispatchRest == <<fleetVars, shutdownVars, cameraVars, fusionVars, calibVars,
                  codecVars, httpVars, portVars, fleetsVars, serverVars, followVars,
                  captureVars>>

DispatchInit ==
    /\ ParkedBase
    /\ NoPorts
    /\ NoFleets
    /\ NoServer
    /\ NoDispatch
    /\ NoFollow
    /\ NoCapture

\* a sender puts a message: the queue pickles it, so what travels is the
\* value of the action and not the sender's object
DispatchPut(a) ==
    /\ Len(dqueue) + Len(dout) < MaxDispatchMsgs
    /\ dqueue' = Append(dqueue, a)
    /\ UNCHANGED <<dobj, dout>>
    /\ UNCHANGED dispatchRest

\* one turn of the loop with a message: queue.get unpickles it into a new
\* string object, then the action is compared and the branch is taken
DispatchGet ==
    /\ dqueue # <<>>
    /\ LET action == MsgAction(Str(Head(dqueue), dobj + 1))
       IN dout' = Append(dout, [action |-> action.val,
                                branch |-> DispatchBranch(action)])
    /\ dobj' = dobj + 1
    /\ dqueue' = Tail(dqueue)
    /\ UNCHANGED dispatchRest

DispatchNext ==
    \/ \E a \in DispatchActions : DispatchPut(a)
    \/ DispatchGet

DispatchSpec == DispatchInit /\ [][DispatchNext]_vars

\* C36: a message taken from the queue whose action equals "save_point_cloud"
\* goes to the capture branch and is never reported as unknown.
C36_SaveDispatchedToCapture ==
    \A i \in 1..Len(dout) :
        dout[i].action = "save_point_cloud" => dout[i].branch = "capture"

(***************************************************************************)
(* routers/linefollow.py: follow_line.  The requests run as coroutines on  *)
(* one event loop, so the code between two awaits is one step.             *)
(***************************************************************************)
followRest == <<fleetVars, shutdownVars, cameraVars, fusionVars, calibVars,
                codecVars, httpVars, portVars, fleetsVars, serverVars,
                dispatchVars, captureVars>>

\* the state a server holds when requests arrive: the flag is whatever the
\* StateVars object holds by then
FollowInit ==
    /\ ParkedBase
    /\ NoPorts
    /\ NoFleets
    /\ NoServer
    /\ NoDispatch
    /\ NoCapture
    /\ following_track \in BOOLEAN
    /\ rpc = [r \in Requests |-> "new"]
    /\ rret = [r \in Requests |-> "none"]
    /\ trk = <<>>
    /\ ftasks = {}

\* lines 170-192: the two tests of sv.following_track, the test that the
\* line file exists, up to the await of get_pose
FollowBegin(r) ==
    /\ rpc[r] = "new"
    /\ \E exists \in BOOLEAN :
        IF following_track
        THEN /\ rret' = [rret EXCEPT ![r] = "Line is currently being followed"]
             /\ rpc' = [rpc EXCEPT ![r] = "returned"]
        ELSE IF ~exists
        THEN /\ rret' = [rret EXCEPT ![r] = "does not exist"]
             /\ rpc' = [rpc EXCEPT ![r] = "returned"]
        ELSE /\ rret' = rret
             /\ rpc' = [rpc EXCEPT ![r] = "get_pose"]
    /\ UNCHANGED <<following_track, trk, ftasks>>
    /\ UNCHANGED followRest

\* lines 193-253: the pose arrived; the path is built, the line data is
\* cleared and /set_track is sent
FollowSetTrack(r) ==
    /\ rpc[r] = "get_pose"
    /\ trk' = Append(trk, [req |-> "/set_track", by |-> r])
    /\ rpc' = [rpc EXCEPT ![r] = "set_track"]
    /\ UNCHANGED <<following_track, rret, ftasks>>
    /\ UNCHANGED followRest

\* line 254: the reply to /set_track arrived; /start is sent
FollowStart(r) ==
    /\ rpc[r] = "set_track"
    /\ trk' = Append(trk, [req |-> "/start", by |-> r])
    /\ rpc' = [rpc EXCEPT ![r] = "start"]
    /\ UNCHANGED <<following_track, rret, ftasks>>
    /\ UNCHANGED followRest

\* lines 255-266: the reply to /start arrived; the flag is set, the capture
\* task is scheduled and the request returns
FollowReturn(r) ==
    /\ rpc[r] = "start"
    /\ following_track' = TRUE
    /\ ftasks' = ftasks \cup {r}
    /\ rret' = [rret EXCEPT ![r] = "Line follow started"]
    /\ rpc' = [rpc EXCEPT ![r] = "returned"]
    /\ UNCHANGED trk
    /\ UNCHANGED followRest

FollowNext ==
    \E r \in Requests :
        \/ FollowBegin(r)
        \/ FollowSetTrack(r)
        \/ FollowStart(r)
        \/ FollowReturn(r)

FollowSpec == FollowInit /\ [][FollowNext]_vars

\* the requests that sent something to the track follower
TrackSetters == { trk[i].by : i \in 1..Len(trk) }

\* C39: at most one follow_line request sets the track, starts the follower
\* and schedules a capture task; a request that returns an error has done
\* none of that.
C39_AtMostOneFollow ==
    /\ Cardinality(TrackSetters) <= 1
    /\ Cardinality(ftasks) <= 1
    /\ \A r \in Requests :
          rret[r] \in {"Line is currently being followed", "does not exist"}
              => r \notin TrackSetters \cup ftasks

(***************************************************************************)
(* routers/linefollow.py: handle_image_capture and capture_image.          *)
(* Distances are counted in half metres.                                   *)
(***************************************************************************)
MaxRows == 2
MaxCutoff == 1
MaxGoal == 4
MaxDist == 5
MaxStateMsgs == 5
MaxTasks == 2

InitialDistanceOffset == 1
BoundingBoxLength == 1

TrackStatuses == {"TRACK_FOLLOWING", "TRACK_PAUSED"}

\* the loop of follow_line over the rows, for walks of c waypoints of
\* rotation and one of motion: total is len(total_path)
RECURSIVE RowLoop(_, _, _, _)
RowLoop(remaining_rows, total, rows, c) ==
    IF remaining_rows <= 0 THEN rows
    ELSE LET rotate_index == total + c
             walked == total + c + 1
             rows2 == Append(rows, <<rotate_index, walked>>)
         IN IF remaining_rows = 1 THEN rows2
            ELSE RowLoop(remaining_rows - 1, walked + c + 1, rows2, c)

\* total_path = [current_pose] and the walk to the start of the line
RowIndices(num_rows, c) == RowLoop(num_rows, 1 + c + 1, <<>>, c)

RowIndexLists ==
    { RowIndices(n, c) : n \in 0..MaxRows, c \in 0..MaxCutoff }

\* for ind1, ind2 in row_indices: if ind1 <= goal_index < ind2: break
RECURSIVE CalculatedRow(_, _, _)
CalculatedRow(rows, goal_index, calculated_row_number) ==
    IF calculated_row_number >= Len(rows) THEN calculated_row_number
    ELSE LET ind1 == rows[calculated_row_number + 1][1]
             ind2 == rows[calculated_row_number + 1][2]
         IN IF goal_index >= ind1 /\ goal_index < ind2
            THEN calculated_row_number
            ELSE CalculatedRow(rows, goal_index, calculated_row_number + 1)

WalkingRowAlways(rows, calculated_row_number) == TRUE

\* walking_row = calculated_row_number != len(row_indices)
WalkingRow(rows, calculated_row_number) == calculated_row_number # Len(rows)

NextCaptureNumberSame(c) == c

\* capture_number += 1
NextCaptureNumber(c) == c + 1

TaskEvent(ev, row, cap) == [ev |-> ev, row |-> row, cap |-> cap]

captureRest == <<fleetVars, shutdownVars, cameraVars, fusionVars, calibVars,
                 codecVars, httpVars, portVars, fleetsVars, serverVars,
                 dispatchVars, followVars>>

CaptureInit ==
    /\ ParkedBase
    /\ NoPorts
    /\ NoFleets
    /\ NoServer
    /\ NoDispatch
    /\ NoFollow
    /\ \E rows \in RowIndexLists : TaskStarted(rows)

\* one turn of the async for: a state message is taken while no request of
\* the task is pending
HandleState(goal_index, dist_remaining, track_status) ==
    /\ capture_pc = "loop"
    /\ hn < MaxStateMsgs
    /\ hn' = hn + 1
    /\ hlast' = [goal |-> goal_index, status |-> track_status]
    /\ hmono' = (hmono /\ goal_index >= hlast.goal)
    /\ LET calculated_row_number == CalculatedRow(row_indices, goal_index, 0)
       IN IF track_follow_id # sv_track_follow_id
          THEN /\ capture_pc' = "exited"
               /\ UNCHANGED <<current_row_number, last_image_capture,
                              capture_number>>
          ELSE IF \/ track_status = "TRACK_PAUSED"
                  \/ ~WalkingRow(row_indices, calculated_row_number)
          THEN UNCHANGED <<capture_pc, current_row_number, last_image_capture,
                           capture_number>>
          ELSE IF current_row_number # calculated_row_number
          THEN /\ current_row_number' = calculated_row_number
               /\ last_image_capture' = dist_remaining - InitialDistanceOffset
               /\ capture_number' = 0
               /\ UNCHANGED capture_pc
          ELSE IF last_image_capture - dist_remaining > BoundingBoxLength
          THEN /\ last_image_capture' = dist_remaining
               /\ capture_pc' = "pause"
               /\ UNCHANGED <<current_row_number, capture_number>>
          ELSE UNCHANGED <<capture_pc, current_row_number, last_image_capture,
                           capture_number>>
    /\ UNCHANGED <<row_indices, track_follow_id, sv_track_follow_id, hlog>>
    /\ UNCHANGED captureRest

PauseRepliedCaptureFirst ==
    /\ capture_pc = "pause"
    /\ hlog' = hlog \o <<TaskEvent("capture", current_row_number, capture_number),
                         TaskEvent("/pause", -1, -1)>>
    /\ capture_pc' = "sleep"
    /\ UNCHANGED <<row_indices, current_row_number, last_image_capture,
                   capture_number, track_follow_id, sv_track_follow_id,
                   hlast, hmono, hn>>
    /\ UNCHANGED captureRest

\* the reply to /pause arrived; capture_image builds the message, enqueues
\* it with oak_manager.queue_msg and sleeps
PauseReplied ==
    /\ capture_pc = "pause"
    /\ hlog' = hlog \o <<TaskEvent("/pause", -1, -1),
                         TaskEvent("capture", current_row_number, capture_number)>>
    /\ capture_pc' = "sleep"
    /\ UNCHANGED <<row_indices, current_row_number, last_image_capture,
                   capture_number, track_follow_id, sv_track_follow_id,
                   hlast, hmono, hn>>
    /\ UNCHANGED captureRest

\* the sleep of capture_image ended: capture_number += 1, /resume is sent
SleepDone ==
    /\ capture_pc = "sleep"
    /\ capture_number' = NextCaptureNumber(capture_number)
    /\ hlog' = Append(hlog, TaskEvent("/resume", -1, -1))
    /\ capture_pc' = "resume"
    /\ UNCHANGED <<row_indices, current_row_number, last_image_capture,
                   track_follow_id, sv_track_follow_id, hlast, hmono, hn>>
    /\ UNCHANGED captureRest

\* the reply to /resume arrived: back to the async for
ResumeReplied ==
    /\ capture_pc = "resume"
    /\ capture_pc' = "loop"
    /\ UNCHANGED <<row_indices, current_row_number, last_image_capture,
                   capture_number, track_follow_id, sv_track_follow_id,
                   hlast, hmono, hn, hlog>>
    /\ UNCHANGED captureRest

\* another handle_image_capture starts: sv.track_follow_id += 1
NewFollowTask ==
    /\ sv_track_follow_id < MaxTasks
    /\ sv_track_follow_id' = sv_track_follow_id + 1
    /\ UNCHANGED <<row_indices, capture_pc, current_row_number, last_image_capture,
                   capture_number, track_follow_id, hlast, hmono, hn, hlog>>
    /\ UNCHANGED captureRest

CaptureNext ==
    \/ \E g \in 0..MaxGoal, d \in 0..MaxDist, s \in TrackStatuses :
          HandleState(g, d, s)
    \/ PauseReplied
    \/ SleepDone
    \/ ResumeReplied
    \/ NewFollowTask

CaptureSpec == CaptureInit /\ [][CaptureNext]_vars

\* the capture commands the task has enqueued, in order
Captures(lg) == SelectSeq(lg, LAMBDA e : e.ev = "capture")

\* C37: while the goal index has not decreased, the capture commands of a
\* row are numbered 0, 1, 2, ... in order, the numbering starts again at 0
\* with each new row, and no two commands have the same row and number.
C37_CaptureNumbersInOrder ==
    hmono =>
        LET caps == Captures(hlog)
        IN /\ \A i \in 1..Len(caps) :
                IF i > 1 /\ caps[i - 1].row = caps[i].row
                THEN caps[i].cap = caps[i - 1].cap + 1
                ELSE caps[i].cap = 0
           /\ \A i, j \in 1..Len(caps) :
                (caps[i].row = caps[j].row /\ caps[i].cap = caps[j].cap)
                    => i = j

C37_Witness ==
    /\ hmono
    /\ LET caps == Captures(hlog)
       IN /\ Len(caps) >= 3
          /\ caps[1].row = 0 /\ caps[2].cap = 1 /\ caps[3].row = 1

\* C38: what the task does runs in rounds of three: /pause completed, then
\* one capture command enqueued, then /resume sent.
C38_PauseCaptureResume ==
    \A i \in 1..Len(hlog) :
        hlog[i].ev = <<"/pause", "capture", "/resume">>[((i - 1) % 3) + 1]

C38_Witness ==
    /\ Len(hlog) >= 6
    /\ hlog[5].ev = "capture"

====
